---- MODULE Spec2Model ----
(***************************************************************************)
(* deptrack: the crate dependency graph (cargo_ops/types.rs, graph.rs),    *)
(* change-impact analysis and version-bump analysis                        *)
(* (cargo_ops/integration.rs), the severity model (severity.rs,            *)
(* severity_config.rs) and the version check of the command line           *)
(* (bin/main.rs).                                                           *)
(*                                                                         *)
(* A call of a read-only query is one action: it evaluates the query on    *)
(* the current graph and stores the arguments and the returned value in    *)
(* `last`; Return hands the value to the caller and clears `last`.         *)
(***************************************************************************)
EXTENDS Integers, Sequences, FiniteSets, TLC

VARIABLES
    crates,        \* CrateDependencyGraph.crates: CrateId -> CrateInfo
    graph_nodes,   \* CrateDependencyGraph.graph, node weights by NodeIndex
    graph_edges,   \* CrateDependencyGraph.graph, edges in insertion order
    node_indices,  \* CrateDependencyGraph.node_indices: CrateId -> NodeIndex
    last           \* the call in progress: its name, arguments and result

vars == <<crates, graph_nodes, graph_edges, node_indices, last>>

----------------------------------------------------------------------------
(* Bounds and input domains *)

\* the CrateIds the callers use
CrateIds == {"a", "b", "c"}

\* the order in which the callers first add them: CrateIds are opaque keys,
\* so a run that adds them in another order is this one with the ids renamed
CrateOrder == <<"a", "b", "c">>

\* most edges a modelled graph gets
MaxEdges == 2

\* longest list of crates handed to an impact query
MaxSeeds == 2

\* longest list of crates handed to a traversal that is followed step by step
MaxTravSeeds == 1

\* most edges of a graph whose changed files are analysed
MaxImpactEdges == 1

\* longest list of affected crates handed to the version-bump analysis
MaxBumpCrates == 2

\* most files the diff of a checked repository reports
MaxCheckChanges == 2

\* most files a modelled diff reports
MaxChanges == 2

\* the repository root the callers pass
RepoPath == <<"repo">>

\* where the crates live, relative to the repository root: b is nested in
\* the source directory of a
CrateDirs == [id \in CrateIds |->
                 CASE id = "a" -> <<"a">>
                   [] id = "b" -> <<"a", "src", "b">>
                   [] id = "c" -> <<"c">>]

\* the files of the repository that a diff can report, relative to the root
RepoFiles == {<<"a", "src", "lib.rs">>,
              <<"a", "src", "b", "src", "lib.rs">>,
              <<"c", "Cargo.toml">>,
              <<"c", "README.md">>}

\* version texts, character by character
v0_1_0 == <<"0", ".", "1", ".", "0">>
v0_2_0 == <<"0", ".", "2", ".", "0">>
v0_10_0 == <<"0", ".", "1", "0", ".", "0">>
v0_1_0_alpha == <<"0", ".", "1", ".", "0", "-", "a", "l", "p", "h", "a">>
v0_1_0_build1 == <<"0", ".", "1", ".", "0", "+", "1">>
v0_1_0_build2 == <<"0", ".", "1", ".", "0", "+", "2">>
v0_1 == <<"0", ".", "1">>

\* the version texts met in manifests
VersionTexts ==
    {v0_1_0, v0_2_0, v0_10_0, v0_1_0_alpha, v0_1_0_build1, v0_1_0_build2, v0_1}

\* enum ChangeType as list_changed_files produces it (git_ops/repository.rs:
\* A, D, M; every other status letter is read as Modified)
ChangeType == {"Added", "Modified", "Deleted"}

\* enum DependencyType
DependencyType == {"Normal", "Dev", "Build"}

NoCall == [op |-> "none"]

----------------------------------------------------------------------------
(* Sequence helpers *)

Range(s) == {s[i] : i \in DOMAIN s}

Reverse(s) == [i \in 1..Len(s) |-> s[Len(s) + 1 - i]]

SeqsUpTo(S, n) == UNION {[1..k -> S] : k \in 0..n}

\* the orders in which a set can be listed
Listings(S) ==
    {q \in [1..Cardinality(S) -> S] : \A i, j \in DOMAIN q : i # j => q[i] # q[j]}

----------------------------------------------------------------------------
(* CrateDependencyGraph: types.rs *)

\* Path::join for a relative right-hand side; a path is the sequence of its
\* components
join(base, rel) == base \o rel

\* CrateInfo::new: the record of a crate; version is the manifest's string
CrateInfo(id, version, path) ==
    [id |-> id, version |-> version, path |-> path,
     cargo_toml_path |-> join(path, <<"Cargo.toml">>)]

\* add_crate that adds a node whether or not the id has one
add_crate_always_new_node(crate_info) ==
    LET crate_id == crate_info.id IN
    /\ graph_nodes' = Append(graph_nodes, crate_id)
    /\ node_indices' = [i \in DOMAIN node_indices \cup {crate_id} |->
                          IF i = crate_id THEN Len(graph_nodes) + 1
                                          ELSE node_indices[i]]
    /\ crates' = [i \in DOMAIN crates \cup {crate_id} |->
                     IF i = crate_id THEN crate_info ELSE crates[i]]
    /\ UNCHANGED graph_edges

\* add_crate: a node if the id has none yet, then the record is stored
add_crate(crate_info) ==
    LET crate_id == crate_info.id IN
    /\ IF crate_id \notin DOMAIN node_indices
          THEN /\ graph_nodes' = Append(graph_nodes, crate_id)
               /\ node_indices' = [i \in DOMAIN node_indices \cup {crate_id} |->
                                     IF i = crate_id THEN Len(graph_nodes) + 1
                                                     ELSE node_indices[i]]
          ELSE UNCHANGED <<graph_nodes, node_indices>>
    /\ crates' = [i \in DOMAIN crates \cup {crate_id} |->
                     IF i = crate_id THEN crate_info ELSE crates[i]]
    /\ UNCHANGED graph_edges

\* add_dependency that adds no second edge between a pair of crates
add_dependency_once(from, to, dep_type) ==
    /\ IF /\ from \in DOMAIN node_indices /\ to \in DOMAIN node_indices
          /\ \A i \in DOMAIN graph_edges :
                \/ graph_edges[i].source # node_indices[from]
                \/ graph_edges[i].target # node_indices[to]
          THEN graph_edges' = Append(graph_edges,
                  [source |-> node_indices[from], target |-> node_indices[to],
                   weight |-> dep_type])
          ELSE UNCHANGED graph_edges
    /\ UNCHANGED <<crates, graph_nodes, node_indices>>

\* add_dependency: an edge from -> to when both ends have a node
add_dependency(from, to, dep_type) ==
    /\ IF from \in DOMAIN node_indices /\ to \in DOMAIN node_indices
          THEN graph_edges' = Append(graph_edges,
                  [source |-> node_indices[from], target |-> node_indices[to],
                   weight |-> dep_type])
          ELSE UNCHANGED graph_edges
    /\ UNCHANGED <<crates, graph_nodes, node_indices>>

\* petgraph edges_directed(n, Incoming): the edges into n, newest first
edges_incoming(n) == Reverse(SelectSeq(graph_edges, LAMBDA e : e.target = n))

\* petgraph edges_directed(n, Outgoing): the edges out of n, newest first
edges_outgoing(n) == Reverse(SelectSeq(graph_edges, LAMBDA e : e.source = n))

\* get_dependents with the edge direction mixed up: it follows outgoing edges
get_dependents_outgoing(crate_id) ==
    IF crate_id \in DOMAIN node_indices
       THEN LET es == edges_outgoing(node_indices[crate_id])
            IN  [i \in 1..Len(es) |-> graph_nodes[es[i].target]]
       ELSE <<>>

\* get_dependents: the sources of the incoming edges, one entry per edge
get_dependents(crate_id) ==
    IF crate_id \in DOMAIN node_indices
       THEN LET es == edges_incoming(node_indices[crate_id])
            IN  [i \in 1..Len(es) |-> graph_nodes[es[i].source]]
       ELSE <<>>

\* get_dependencies: the targets of the outgoing edges, one entry per edge
get_dependencies(crate_id) ==
    IF crate_id \in DOMAIN node_indices
       THEN LET es == edges_outgoing(node_indices[crate_id])
            IN  [i \in 1..Len(es) |-> graph_nodes[es[i].target]]
       ELSE <<>>

----------------------------------------------------------------------------
(* Change impact: integration.rs *)

RECURSIVE collect_affected_recursive(_, _), collect_affected_each(_, _)

\* collect_affected_recursive: depth-first over the dependents, guarded by
\* the visited set; st = [affected, visited]
collect_affected_recursive(crate_id, st) ==
    IF crate_id \in st.visited
       THEN st
       ELSE collect_affected_each(get_dependents(crate_id),
                [affected |-> Append(st.affected, crate_id),
                 visited  |-> st.visited \cup {crate_id}])

\* the `for dependent in dependents` loop of collect_affected_recursive
collect_affected_each(dependents, st) ==
    IF dependents = <<>>
       THEN st
       ELSE collect_affected_each(Tail(dependents),
                collect_affected_recursive(Head(dependents), st))

RECURSIVE find_all_affected_loop(_, _)

\* the `for crate_id in directly_affected` loop of find_all_affected_crates
find_all_affected_loop(directly_affected, st) ==
    IF directly_affected = <<>>
       THEN st
       ELSE find_all_affected_loop(Tail(directly_affected),
                collect_affected_recursive(Head(directly_affected), st))

\* find_all_affected_crates: the affected list in visiting order
find_all_affected_crates(directly_affected) ==
    find_all_affected_loop(directly_affected,
        [affected |-> <<>>, visited |-> {}]).affected

----------------------------------------------------------------------------
(* Files and their owners: integration.rs.  `disk` is the set of the files  *)
(* of the working tree, as absolute paths; a directory exists when a file    *)
(* lies below it.                                                            *)

IsPrefix(p, q) == Len(p) <= Len(q) /\ SubSeq(q, 1, Len(p)) = p

is_file(path, disk) == path \in disk

is_dir(path, disk) == \E f \in disk : IsPrefix(path, f) /\ f # path

exists(path, disk) == is_file(path, disk) \/ is_dir(path, disk)

\* scan_crate_files: source_dirs
source_dirs == <<"src", "tests", "benches", "examples", "build.rs">>

\* scan_directory_recursive: the files below dir
scan_directory_recursive(dir, disk) == {f \in disk : IsPrefix(dir, f)}

\* scan_crate_files: the files found under the source directories of the
\* crate, and its Cargo.toml; only what exists in the working tree is found
scan_crate_files(crate_root, disk) ==
    UNION {LET dir_path == join(crate_root, <<source_dirs[i]>>)
           IN  IF ~exists(dir_path, disk) THEN {}
               ELSE IF is_file(dir_path, disk) THEN {dir_path}
               ELSE scan_directory_recursive(dir_path, disk) :
           i \in DOMAIN source_dirs}
    \cup (LET cargo_toml == join(crate_root, <<"Cargo.toml">>)
          IN  IF exists(cargo_toml, disk) THEN {cargo_toml} ELSE {})

\* HashMap::insert of every file of `files` with the value crate_id
mapping_insert_all(mapping, files, crate_id) ==
    [f \in DOMAIN mapping \cup files |->
        IF f \in files THEN crate_id ELSE mapping[f]]

RECURSIVE build_file_to_crate_mapping_loop(_, _, _)

\* the `for crate_info in self.crates.values()` loop
build_file_to_crate_mapping_loop(values, disk, mapping) ==
    IF values = <<>>
       THEN mapping
       ELSE build_file_to_crate_mapping_loop(Tail(values), disk,
               mapping_insert_all(mapping,
                   scan_crate_files(crates[Head(values)].path, disk),
                   Head(values)))

\* build_file_to_crate_mapping; `values` is the order in which the HashMap
\* of the crates is iterated, which the program does not determine
build_file_to_crate_mapping(values, disk) ==
    build_file_to_crate_mapping_loop(values, disk, <<>>)

RECURSIVE map_files_to_crates_loop(_, _, _)

\* the `for file_path in file_paths` loop; st = [affected_crates, seen]
map_files_to_crates_loop(file_paths, file_mapping, st) ==
    IF file_paths = <<>>
       THEN st
       ELSE map_files_to_crates_loop(Tail(file_paths), file_mapping,
               IF /\ Head(file_paths) \in DOMAIN file_mapping
                  /\ file_mapping[Head(file_paths)] \notin st.seen
                  THEN [affected_crates |->
                           Append(st.affected_crates,
                                  file_mapping[Head(file_paths)]),
                        seen |-> st.seen \cup {file_mapping[Head(file_paths)]}]
                  ELSE st)

\* map_files_to_crates without the `seen` set: the owner of every file that
\* has one
map_files_to_crates_every_file(file_paths, file_mapping) ==
    LET owned == SelectSeq(file_paths, LAMBDA f : f \in DOMAIN file_mapping)
    IN  [i \in DOMAIN owned |-> file_mapping[owned[i]]]

\* map_files_to_crates: the owners of the files, each once, in the order of
\* their first file
map_files_to_crates(file_paths, file_mapping) ==
    map_files_to_crates_loop(file_paths, file_mapping,
        [affected_crates |-> <<>>, seen |-> {}]).affected_crates

\* analyze_git_changes, given what list_changed_files returned
analyze_git_changes(changed_files, disk, values) ==
    IF ~changed_files.ok
       THEN [ok |-> FALSE]
       ELSE LET file_mapping == build_file_to_crate_mapping(values, disk)
                absolute_changed_files ==
                    [i \in DOMAIN changed_files.changes |->
                        join(RepoPath, changed_files.changes[i].path)]
                directly_affected ==
                    map_files_to_crates(absolute_changed_files, file_mapping)
                all_affected == find_all_affected_crates(directly_affected)
            IN  [ok |-> TRUE,
                 changed_files |-> [i \in DOMAIN changed_files.changes |->
                                       changed_files.changes[i].path],
                 directly_affected_crates |-> directly_affected,
                 all_affected_crates |-> all_affected,
                 needs_rebuild |-> all_affected,
                 file_to_crate_mapping |-> file_mapping]

----------------------------------------------------------------------------
(* petgraph algorithms, by their contracts *)

\* the targets of the edges of E that leave a node of S
successors(S, E) ==
    {E[i].target : i \in {j \in DOMAIN E : E[j].source \in S}}

RECURSIVE reach_closure(_, _)

\* the nodes reached from S over zero or more edges of E
reach_closure(S, E) ==
    LET N == S \cup successors(S, E)
    IN  IF N = S THEN S ELSE reach_closure(N, E)

\* petgraph::algo::tarjan_scc: the strongly connected components of the graph
\* with nodes N and edges E, every node in exactly one of them; the order of
\* the components and of their members is left out
tarjan_scc(N, E) ==
    {{m \in N : m \in reach_closure({n}, E) /\ n \in reach_closure({m}, E)} :
        n \in N}

\* Graph::contains_edge(a, b)
contains_edge(E, a, b) ==
    \E i \in DOMAIN E : E[i].source = a /\ E[i].target = b

\* petgraph::algo::is_cyclic_directed: some node reaches itself over at least
\* one edge
is_cyclic_directed(N, E) ==
    \E n \in N : n \in reach_closure(successors({n}, E), E)

\* the orders of 1..n in which every edge of E goes from an earlier node to a
\* later one
sorted_orders(n, E) ==
    {o \in [1..n -> 1..n] :
        /\ \A i, j \in 1..n : i # j => o[i] # o[j]
        /\ \A k \in DOMAIN E :
              \E i, j \in 1..n :
                 i < j /\ o[i] = E[k].source /\ o[j] = E[k].target}

\* petgraph::algo::toposort: Err(Cycle) when no such order exists, otherwise
\* Ok(one of them); which one is petgraph's choice
toposort(n, E) ==
    IF sorted_orders(n, E) = {}
       THEN {[ok |-> FALSE]}
       ELSE {[ok |-> TRUE, order |-> o] : o \in sorted_orders(n, E)}

----------------------------------------------------------------------------
(* Cycles, order and statistics: types.rs, graph.rs *)

AllDependencyTypes == {"Normal", "Dev", "Build"}

\* has_cycles
has_cycles == is_cyclic_directed(1..Len(graph_nodes), graph_edges)

\* topological_order without the reversal of toposort's answer
topological_order_unreversed ==
    {IF r.ok
        THEN [some |-> TRUE,
              order |-> [i \in 1..Len(r.order) |-> graph_nodes[r.order[i]]]]
        ELSE [some |-> FALSE] :
     r \in toposort(Len(graph_nodes), graph_edges)}

\* topological_order: None on a cycle, otherwise toposort's order reversed,
\* as CrateIds; the set of the values the call may return
topological_order ==
    {IF r.ok
        THEN [some |-> TRUE,
              order |-> LET indices == Reverse(r.order)
                        IN  [i \in 1..Len(indices) |-> graph_nodes[indices[i]]]]
        ELSE [some |-> FALSE] :
     r \in toposort(Len(graph_nodes), graph_edges)}

\* get_build_order: topological_order, None turned into CyclicDependency
get_build_order ==
    {IF t.some THEN [ok |-> TRUE, order |-> t.order]
               ELSE [ok |-> FALSE, err |-> "CyclicDependency"] :
     t \in topological_order}

\* find_cycles_filtered with the check of the edge kind left out
find_cycles_unfiltered(allowed_types) ==
    LET nodes == DOMAIN crates
        edges == [i \in DOMAIN graph_edges |->
                     [source |-> graph_nodes[graph_edges[i].source],
                      target |-> graph_nodes[graph_edges[i].target],
                      weight |-> graph_edges[i].weight]]
        sccs  == tarjan_scc(nodes, edges)
    IN  {scc \in sccs :
            \/ Cardinality(scc) > 1
            \/ /\ Cardinality(scc) = 1
               /\ \E n \in scc : contains_edge(edges, n, n)}

\* find_cycles_filtered: a second graph with a node per crate and the edges
\* whose kind is allowed (as CrateIds: NodeIndex -> CrateId -> crates[..].id
\* is the identity on them); of its components, those with more than one
\* member and those whose one member has a self-loop
find_cycles_filtered(allowed_types) ==
    LET nodes == DOMAIN crates
        kept  == SelectSeq(graph_edges, LAMBDA e :
                     /\ e.weight \in allowed_types
                     /\ graph_nodes[e.source] \in nodes
                     /\ graph_nodes[e.target] \in nodes)
        edges == [i \in DOMAIN kept |->
                     [source |-> graph_nodes[kept[i].source],
                      target |-> graph_nodes[kept[i].target],
                      weight |-> kept[i].weight]]
        sccs  == tarjan_scc(nodes, edges)
    IN  {scc \in sccs :
            \/ Cardinality(scc) > 1
            \/ /\ Cardinality(scc) = 1
               /\ \E n \in scc : contains_edge(edges, n, n)}

\* find_cycles
find_cycles == find_cycles_filtered(AllDependencyTypes)

\* find_production_cycles that forgets to leave dev and build edges out
find_production_cycles_all_kinds == find_cycles_filtered(AllDependencyTypes)

\* find_production_cycles
find_production_cycles == find_cycles_filtered({"Normal"})

\* the largest member of a set of naturals, 0 for the empty set
max_or_zero(S) == IF S = {} THEN 0 ELSE CHOOSE x \in S : \A y \in S : y <= x

\* get_statistics (workspace_count is left out: the model holds no workspace
\* list)
get_statistics ==
    LET production_cycles == find_production_cycles
        all_cycles == find_cycles
    IN  [crate_count |-> Len(graph_nodes),
         dependency_count |-> Len(graph_edges),
         has_cycles |-> production_cycles # {},
         cycle_count |-> Cardinality(production_cycles),
         total_cycles_including_dev |-> Cardinality(all_cycles),
         max_dependents |->
             max_or_zero({Len(get_dependents(id)) : id \in DOMAIN crates}),
         max_dependencies |->
             max_or_zero({Len(get_dependencies(id)) : id \in DOMAIN crates})]

----------------------------------------------------------------------------
(* semver::Version (semver 1.x): parsing and the derived total order *)

Digits == <<"0", "1", "2", "3", "4", "5", "6", "7", "8", "9">>

\* the characters of an identifier, in ASCII order (upper case left out)
IdentChars ==
    <<"-">> \o Digits \o
    <<"a", "b", "c", "d", "e", "f", "g", "h", "i", "j", "k", "l", "m",
      "n", "o", "p", "q", "r", "s", "t", "u", "v", "w", "x", "y", "z">>

char_code(ch) == CHOOSE i \in DOMAIN IdentChars : IdentChars[i] = ch

is_ascii_digits(seg) == \A i \in DOMAIN seg : seg[i] \in Range(Digits)

is_ident(seg) == seg # <<>> /\ \A i \in DOMAIN seg : seg[i] \in Range(IdentChars)

\* a numeric identifier: digits, no leading zero
is_numeric_ident(seg) ==
    /\ seg # <<>>
    /\ is_ascii_digits(seg)
    /\ Len(seg) > 1 => seg[1] # "0"

\* str::find: the first index of ch in text, 0 when there is none
find(text, ch) ==
    IF \E i \in DOMAIN text : text[i] = ch
       THEN CHOOSE i \in DOMAIN text :
               text[i] = ch /\ \A j \in 1..(i - 1) : text[j] # ch
       ELSE 0

RECURSIVE split(_, _)

\* str::split: the pieces between the occurrences of ch
split(text, ch) ==
    LET i == find(text, ch)
    IN  IF i = 0 THEN <<text>>
        ELSE <<SubSeq(text, 1, i - 1)>> \o split(SubSeq(text, i + 1, Len(text)), ch)

RECURSIVE to_number(_)

to_number(seg) ==
    IF seg = <<>> THEN 0
    ELSE 10 * to_number(SubSeq(seg, 1, Len(seg) - 1))
         + (char_code(seg[Len(seg)]) - char_code("0"))

\* Version::parse: major.minor.patch, then -pre and +build if present; pre
\* and build are kept as their dot-separated identifiers, <<>> when absent
Version_parse(text) ==
    LET plus == find(text, "+")
        before_build == IF plus = 0 THEN text ELSE SubSeq(text, 1, plus - 1)
        dash == find(before_build, "-")
        core == IF dash = 0 THEN before_build
                            ELSE SubSeq(before_build, 1, dash - 1)
        numbers == split(core, ".")
        pre == IF dash = 0 THEN <<>>
               ELSE split(SubSeq(before_build, dash + 1, Len(before_build)), ".")
        build == IF plus = 0 THEN <<>>
                 ELSE split(SubSeq(text, plus + 1, Len(text)), ".")
    IN  IF /\ Len(numbers) = 3
           /\ \A i \in DOMAIN numbers : is_numeric_ident(numbers[i])
           /\ \A i \in DOMAIN pre :
                 /\ is_ident(pre[i])
                 /\ is_ascii_digits(pre[i]) => is_numeric_ident(pre[i])
           /\ \A i \in DOMAIN build : is_ident(build[i])
           THEN [ok |-> TRUE,
                 version |-> [major |-> to_number(numbers[1]),
                              minor |-> to_number(numbers[2]),
                              patch |-> to_number(numbers[3]),
                              pre |-> pre, build |-> build]]
           ELSE [ok |-> FALSE]

\* Ordering::then
then(first, second) == IF first # "Equal" THEN first ELSE second

cmp_number(a, b) == IF a < b THEN "Less" ELSE IF a > b THEN "Greater" ELSE "Equal"

RECURSIVE cmp_str(_, _)

\* str::cmp: byte by byte, a proper prefix is less
cmp_str(l, r) ==
    IF l = <<>> THEN (IF r = <<>> THEN "Equal" ELSE "Less")
    ELSE IF r = <<>> THEN "Greater"
    ELSE then(cmp_number(char_code(l[1]), char_code(r[1])),
              cmp_str(Tail(l), Tail(r)))

RECURSIVE trim_start_zeros(_)

trim_start_zeros(seg) ==
    IF seg # <<>> /\ seg[1] = "0" THEN trim_start_zeros(Tail(seg)) ELSE seg

\* one identifier of a pre-release against another
cmp_pre_ident(l, r) ==
    IF is_ascii_digits(l) /\ is_ascii_digits(r)
       THEN then(cmp_number(Len(l), Len(r)), cmp_str(l, r))
    ELSE IF is_ascii_digits(l) THEN "Less"
    ELSE IF is_ascii_digits(r) THEN "Greater"
    ELSE cmp_str(l, r)

\* one identifier of build metadata against another
cmp_build_ident(l, r) ==
    IF is_ascii_digits(l) /\ is_ascii_digits(r)
       THEN LET lhval == trim_start_zeros(l)
                rhval == trim_start_zeros(r)
            IN  then(then(cmp_number(Len(lhval), Len(rhval)), cmp_str(lhval, rhval)),
                     cmp_number(Len(l), Len(r)))
    ELSE IF is_ascii_digits(l) THEN "Less"
    ELSE IF is_ascii_digits(r) THEN "Greater"
    ELSE cmp_str(l, r)

RECURSIVE cmp_idents(_, _, _)

\* identifier by identifier; the list that runs out first is less
cmp_idents(l, r, is_build) ==
    IF l = <<>> THEN (IF r = <<>> THEN "Equal" ELSE "Less")
    ELSE IF r = <<>> THEN "Greater"
    ELSE then(IF is_build THEN cmp_build_ident(l[1], r[1])
                          ELSE cmp_pre_ident(l[1], r[1]),
              cmp_idents(Tail(l), Tail(r), is_build))

\* impl Ord for Prerelease: no pre-release is greater than any pre-release
Prerelease_cmp(l, r) ==
    IF l = <<>> THEN (IF r = <<>> THEN "Equal" ELSE "Greater")
    ELSE IF r = <<>> THEN "Less"
    ELSE cmp_idents(l, r, FALSE)

\* impl Ord for BuildMetadata: empty metadata splits into one empty
\* identifier, which is less than any other
BuildMetadata_cmp(l, r) ==
    cmp_idents(IF l = <<>> THEN << <<>> >> ELSE l,
               IF r = <<>> THEN << <<>> >> ELSE r, TRUE)

\* derive(Ord) for Version: major, minor, patch, pre, build in this order
Version_cmp(l, r) ==
    then(cmp_number(l.major, r.major),
    then(cmp_number(l.minor, r.minor),
    then(cmp_number(l.patch, r.patch),
    then(Prerelease_cmp(l.pre, r.pre),
         BuildMetadata_cmp(l.build, r.build)))))

----------------------------------------------------------------------------
(* Severity: severity.rs, severity_config.rs *)

IssueSeverity == {"Error", "Warning"}

IssueType == {"MissingChangelog", "MissingVersionEntry", "ChangelogNotUpdated",
              "BadFormat", "NoVersionBump"}

\* Issue::new
Issue(severity, issue_type, message) ==
    [severity |-> severity, issue_type |-> issue_type, message |-> message]

\* SeverityConfig::get_severity
get_severity(config, issue_type) ==
    CASE issue_type = "MissingChangelog" -> config.missing_changelog
      [] issue_type = "MissingVersionEntry" -> config.missing_version_entry
      [] issue_type = "ChangelogNotUpdated" -> config.changelog_not_updated
      [] issue_type = "BadFormat" -> config.bad_format
      [] issue_type = "NoVersionBump" -> config.no_version_bump

\* SeverityConfig::default_direct
default_direct ==
    [missing_changelog |-> "Error", missing_version_entry |-> "Warning",
     changelog_not_updated |-> "Warning", bad_format |-> "Error",
     no_version_bump |-> "Error"]

\* SeverityConfig::default_transitive
default_transitive ==
    [missing_changelog |-> "Warning", missing_version_entry |-> "Warning",
     changelog_not_updated |-> "Warning", bad_format |-> "Warning",
     no_version_bump |-> "Warning"]

----------------------------------------------------------------------------
(* Version-bump analysis: integration.rs.  base_reads gives, for the        *)
(* manifest of every crate, what `git show <base_ref>:<manifest>` meets.    *)

\* read_crate_version_at_ref: Err when git cannot be run; Ok(None) when the
\* file is not at the ref, is no TOML or carries no version that parses;
\* a manifest without a version counts as 0.1.0
read_crate_version_at_ref(base_read) ==
    CASE base_read.kind = "io_error" -> [ok |-> FALSE]
      [] base_read.kind = "not_found" -> [ok |-> TRUE, some |-> FALSE]
      [] base_read.kind = "bad_toml" -> [ok |-> TRUE, some |-> FALSE]
      [] base_read.kind \in {"no_version", "version"} ->
            LET version_str == IF base_read.kind = "version" THEN base_read.text
                                                             ELSE v0_1_0
                parsed == Version_parse(version_str)
            IN  IF parsed.ok
                   THEN [ok |-> TRUE, some |-> TRUE, version |-> parsed.version]
                   ELSE [ok |-> TRUE, some |-> FALSE]

\* the body of the loop of analyze_version_bumps for one crate whose version
\* parses, with severity_pick choosing between the two configs
version_bump_step_with(acc, crate_id, current_version, base_version, directly_changed, severity_pick) ==
    LET is_bumped == Version_cmp(current_version, base_version) = "Greater"
        is_directly_changed == crate_id \in Range(directly_changed)
        severity_config == severity_pick[is_directly_changed]
        severity == get_severity(severity_config, "NoVersionBump")
        issue == Issue(severity, "NoVersionBump",
                       [text |-> "version not bumped",
                        current |-> current_version, base |-> base_version])
        status == [crate_id |-> crate_id,
                   base_version |-> base_version,
                   current_version |-> current_version,
                   is_bumped |-> is_bumped,
                   is_directly_changed |-> is_directly_changed,
                   issues |-> IF is_bumped THEN <<>> ELSE <<issue>>]
        inserted == [id \in DOMAIN acc.crate_versions \cup {crate_id} |->
                        IF id = crate_id THEN status ELSE acc.crate_versions[id]]
    IN  IF is_bumped
           THEN [acc EXCEPT !.crates_bumped = Append(@, crate_id),
                            !.crate_versions = inserted]
           ELSE [acc EXCEPT !.crates_needing_bump = Append(@, crate_id),
                            !.total_errors =
                                IF severity = "Error" THEN @ + 1 ELSE @,
                            !.total_warnings =
                                IF severity = "Error" THEN @ ELSE @ + 1,
                            !.crate_versions = inserted]

\* the loop body that takes the direct config for every crate
version_bump_step_direct_only(acc, crate_id, current_version, base_version, directly_changed, direct_severity, transitive_severity) ==
    version_bump_step_with(acc, crate_id, current_version, base_version,
        directly_changed, [b \in BOOLEAN |-> direct_severity])

\* the loop body: the direct config for a directly changed crate, the
\* transitive config otherwise
version_bump_step(acc, crate_id, current_version, base_version, directly_changed, direct_severity, transitive_severity) ==
    version_bump_step_with(acc, crate_id, current_version, base_version,
        directly_changed,
        [b \in BOOLEAN |-> IF b THEN direct_severity ELSE transitive_severity])

RECURSIVE analyze_version_bumps_loop(_, _, _, _, _, _)

\* the `for crate_id in affected_crates` loop: a crate the graph does not
\* know, or whose version does not parse, is passed over; a base version
\* that cannot be read is taken to be the current one
analyze_version_bumps_loop(affected_crates, directly_changed, direct_severity, transitive_severity, base_reads, acc) ==
    IF affected_crates = <<>>
       THEN acc
       ELSE LET crate_id == Head(affected_crates)
                rest == Tail(affected_crates)
            IN  IF crate_id \notin DOMAIN crates
                   THEN analyze_version_bumps_loop(rest, directly_changed,
                            direct_severity, transitive_severity, base_reads, acc)
                ELSE LET current == Version_parse(crates[crate_id].version)
                         base == read_crate_version_at_ref(base_reads[crate_id])
                     IN  IF ~current.ok
                            THEN analyze_version_bumps_loop(rest,
                                     directly_changed, direct_severity,
                                     transitive_severity, base_reads, acc)
                            ELSE analyze_version_bumps_loop(rest,
                                     directly_changed, direct_severity,
                                     transitive_severity, base_reads,
                                     version_bump_step(acc, crate_id,
                                         current.version,
                                         IF base.ok /\ base.some
                                            THEN base.version
                                            ELSE current.version,
                                         directly_changed, direct_severity,
                                         transitive_severity))

\* analyze_version_bumps
analyze_version_bumps(affected_crates, directly_changed, direct_severity, transitive_severity, base_reads) ==
    analyze_version_bumps_loop(affected_crates, directly_changed,
        direct_severity, transitive_severity, base_reads,
        [crate_versions |-> <<>>, crates_needing_bump |-> <<>>,
         crates_bumped |-> <<>>, total_errors |-> 0, total_warnings |-> 0])

RECURSIVE gcd(_, _)

\* the greatest common divisor of two naturals
gcd(m, n) == IF n = 0 THEN m ELSE gcd(n, m % n)

\* (part as f64 / total as f64) * 100.0 for total > 0, as the fraction
\* 100 * part / total in lowest terms: on the small counts of the model two
\* fractions are equal, or ordered, exactly when the f64 values are
percent_of(part, total) ==
    LET d == gcd(100 * part, total)
    IN  [num |-> (100 * part) \div d, den |-> total \div d]

\* 100.0
percent_100 == [num |-> 100, den |-> 1]

\* VersionBumpAnalysis::all_bumped
all_bumped(analysis) == analysis.crates_needing_bump = <<>>

\* bump_percentage that answers 0 when there is no status
bump_percentage_zero_if_empty(analysis) ==
    LET total == Cardinality(DOMAIN analysis.crate_versions)
    IN  IF total = 0
           THEN percent_of(0, 1)
           ELSE percent_of(Len(analysis.crates_bumped), total)

\* VersionBumpAnalysis::bump_percentage
bump_percentage(analysis) ==
    LET total == Cardinality(DOMAIN analysis.crate_versions)
    IN  IF total = 0
           THEN percent_100
           ELSE percent_of(Len(analysis.crates_bumped), total)

----------------------------------------------------------------------------
(* Changelog parsing: changelog/parser.rs, changelog/types.rs.  A text is   *)
(* the sequence of its characters, a file the sequence of its lines.        *)

LowerChars ==
    <<"a", "b", "c", "d", "e", "f", "g", "h", "i", "j", "k", "l", "m",
      "n", "o", "p", "q", "r", "s", "t", "u", "v", "w", "x", "y", "z">>

UpperChars ==
    <<"A", "B", "C", "D", "E", "F", "G", "H", "I", "J", "K", "L", "M",
      "N", "O", "P", "Q", "R", "S", "T", "U", "V", "W", "X", "Y", "Z">>

\* char::to_uppercase
char_to_uppercase(ch) ==
    IF ch \in Range(LowerChars)
       THEN UpperChars[CHOOSE i \in DOMAIN LowerChars : LowerChars[i] = ch]
       ELSE ch

\* str::to_uppercase
to_uppercase(text) == [i \in DOMAIN text |-> char_to_uppercase(text[i])]

\* char::is_whitespace, for the characters of the model
is_whitespace(ch) == ch = " "

RECURSIVE trim_start(_)

\* str::trim_start
trim_start(text) ==
    IF text # <<>> /\ is_whitespace(text[1]) THEN trim_start(Tail(text)) ELSE text

\* str::trim
trim(text) == Reverse(trim_start(Reverse(trim_start(text))))

\* str::starts_with for one character
starts_with(text, ch) == text # <<>> /\ text[1] = ch

\* str::strip_prefix for one character
strip_prefix(text, ch) ==
    IF starts_with(text, ch) THEN [some |-> TRUE, value |-> Tail(text)]
                             ELSE [some |-> FALSE]

RECURSIVE trim_start_matches(_, _)

\* str::trim_start_matches: every leading occurrence of ch is removed
trim_start_matches(text, ch) ==
    IF starts_with(text, ch) THEN trim_start_matches(Tail(text), ch) ELSE text

\* str::contains
contains(text, pattern) ==
    \E i \in 1..(Len(text) - Len(pattern) + 1) :
        SubSeq(text, i, i + Len(pattern) - 1) = pattern

str_changelog_header == <<"#", " ", "C", "H", "A", "N", "G", "E", "L", "O", "G">>

str_changelog_header_tight == <<"#", "C", "H", "A", "N", "G", "E", "L", "O", "G">>

str_changelog_word == <<"C", "H", "A", "N", "G", "E", "L", "O", "G">>

str_chore == <<"c", "h", "o", "r", "e">>

\* extract_version_from_header
extract_version_from_header(version_header) ==
    LET stripped == strip_prefix(version_header, "#")
    IN  IF stripped.some
           THEN LET bracketed == trim(stripped.value)
                    inside_brackets == strip_prefix(bracketed, "[")
                IN  IF starts_with(bracketed, "#")
                       THEN [some |-> FALSE]
                    ELSE IF inside_brackets.some
                       THEN [some |-> TRUE,
                             value |-> trim_start_matches(
                                 Head(split(inside_brackets.value, "]")), "v")]
                    ELSE [some |-> TRUE,
                          value |-> trim_start_matches(bracketed, "v")]
           ELSE [some |-> TRUE, value |-> trim_start_matches(version_header, "v")]

\* ChangelogEntry::new
ChangelogEntry(change_type, scope, description, line_number) ==
    [change_type |-> change_type, scope |-> scope, description |-> description,
     line_number |-> line_number]

\* parse_prefix_and_description
parse_prefix_and_description(prefix, description, line_number) ==
    LET paren_pos == find(prefix, "(")
    IN  IF paren_pos = 0
           THEN LET change_type == trim(prefix)
                IN  IF change_type = <<>>
                       THEN [ok |-> FALSE, err |-> "empty change type"]
                       ELSE [ok |-> TRUE,
                             entry |-> ChangelogEntry(change_type, [some |-> FALSE],
                                           description, line_number)]
        ELSE LET change_type == trim(SubSeq(prefix, 1, paren_pos - 1))
                 rest == SubSeq(prefix, paren_pos + 1, Len(prefix))
                 close_paren == find(rest, ")")
             IN  IF close_paren = 0
                    THEN [ok |-> FALSE, err |-> "unclosed parenthesis in scope"]
                 ELSE IF change_type = <<>>
                    THEN [ok |-> FALSE, err |-> "empty change type"]
                 ELSE [ok |-> TRUE,
                       entry |-> ChangelogEntry(change_type,
                                     [some |-> TRUE,
                                      value |-> trim(SubSeq(rest, 1, close_paren - 1))],
                                     description, line_number)]

\* parse_entry
parse_entry(text, line_number) ==
    LET colon_pos == find(text, ":")
    IN  IF colon_pos = 0
           THEN LET description == trim(text)
                IN  IF description = <<>>
                       THEN [ok |-> FALSE, err |-> "empty entry"]
                       ELSE [ok |-> TRUE,
                             entry |-> ChangelogEntry(str_chore, [some |-> FALSE],
                                           description, line_number)]
        ELSE LET prefix == SubSeq(text, 1, colon_pos - 1)
                 description == trim(SubSeq(text, colon_pos + 1, Len(text)))
             IN  IF description = <<>>
                    THEN [ok |-> FALSE, err |-> "empty description"]
                    ELSE parse_prefix_and_description(prefix, description,
                                                      line_number)

\* ChangelogVersion::new
ChangelogVersion(version, line_number) ==
    [version |-> version, entries |-> <<>>, line_number |-> line_number]

\* ChangelogVersion::add_entry
add_entry(version_section, entry) ==
    [version_section EXCEPT !.entries = Append(@, entry)]

\* Changelog::new
Changelog_new == [versions |-> <<>>, has_header |-> FALSE, format_issues |-> <<>>]

\* add_version that keeps the section already stored under the version
add_version_keep_first(changelog, version_section) ==
    IF version_section.version \in DOMAIN changelog.versions
       THEN changelog
       ELSE [changelog EXCEPT
                !.versions = [v \in DOMAIN changelog.versions
                                     \cup {version_section.version} |->
                                 IF v = version_section.version
                                    THEN version_section
                                    ELSE changelog.versions[v]]]

\* Changelog::add_version: HashMap::insert under the version of the section
add_version(changelog, version_section) ==
    [changelog EXCEPT
        !.versions = [v \in DOMAIN changelog.versions \cup {version_section.version} |->
                         IF v = version_section.version
                            THEN version_section
                            ELSE changelog.versions[v]]]

\* the format issue pushed by the parser; note is set for the message that
\* ends in "(note: prefer '*' over '-' for entries)"
format_issue(line_number, text, note) ==
    Issue("Error", "BadFormat", [line |-> line_number, text |-> text, note |-> note])

\* the `if let Some(prev) = current_version.take()` of a header line
flush_current(st) ==
    IF st.current_version.some
       THEN [changelog |-> add_version(st.changelog, st.current_version.value),
             current_version |-> [some |-> FALSE]]
       ELSE st

\* the body of the loop of parse_changelog for one line; st holds changelog
\* and current_version
parse_line(st, line, line_number) ==
    LET trimmed == trim(line)
        header == strip_prefix(trimmed, "#")
        star == strip_prefix(trimmed, "*")
        dash == strip_prefix(trimmed, "-")
    IN  IF trimmed = <<>>
           THEN st
        ELSE IF trimmed = str_changelog_header \/ trimmed = str_changelog_header_tight
           THEN [st EXCEPT !.changelog.has_header = TRUE]
        ELSE IF header.some
           THEN LET version_str == extract_version_from_header(trim(header.value))
                IN  IF ~version_str.some
                       THEN st
                    ELSE LET flushed == flush_current(st)
                             parsed == Version_parse(version_str.value)
                         IN  IF parsed.ok
                                THEN [flushed EXCEPT
                                        !.current_version =
                                            [some |-> TRUE,
                                             value |-> ChangelogVersion(parsed.version,
                                                           line_number)]]
                             ELSE IF /\ ~flushed.changelog.has_header
                                     /\ contains(to_uppercase(trimmed),
                                                 str_changelog_word)
                                THEN [flushed EXCEPT !.changelog.has_header = TRUE]
                             ELSE [flushed EXCEPT
                                     !.changelog.format_issues =
                                         Append(@, format_issue(line_number,
                                             "could not parse version", FALSE))]
        ELSE IF star.some
           THEN IF st.current_version.some
                   THEN LET parsed == parse_entry(trim(star.value), line_number)
                        IN  IF parsed.ok
                               THEN [st EXCEPT !.current_version.value =
                                                   add_entry(@, parsed.entry)]
                               ELSE [st EXCEPT !.changelog.format_issues =
                                        Append(@, format_issue(line_number,
                                                      parsed.err, FALSE))]
                   ELSE [st EXCEPT !.changelog.format_issues =
                            Append(@, format_issue(line_number,
                                "entry found outside of version section", FALSE))]
        ELSE IF dash.some
           THEN IF st.current_version.some
                   THEN LET parsed == parse_entry(trim(dash.value), line_number)
                        IN  IF parsed.ok
                               THEN [st EXCEPT !.current_version.value =
                                                   add_entry(@, parsed.entry)]
                               ELSE [st EXCEPT !.changelog.format_issues =
                                        Append(@, format_issue(line_number,
                                                      parsed.err, TRUE))]
                   ELSE st
        ELSE st

RECURSIVE parse_lines(_, _, _)

\* the loop of parse_changelog over lines[from..]
parse_lines(st, lines, from) ==
    IF from > Len(lines)
       THEN st
       ELSE parse_lines(parse_line(st, lines[from], from), lines, from + 1)

\* parse_changelog; file is [readable |-> FALSE] or carries the lines of the
\* file
parse_changelog(file) ==
    IF ~file.readable
       THEN [ok |-> FALSE, err |-> "FileReadError"]
       ELSE [ok |-> TRUE,
             changelog |->
                 flush_current(parse_lines(
                     [changelog |-> Changelog_new,
                      current_version |-> [some |-> FALSE]],
                     file.lines, 1)).changelog]

----------------------------------------------------------------------------
(* Changelog validation: changelog/validator.rs, changelog/config.rs *)

\* ChangelogConfig::default().allowed_change_types: feat, fix, chore,
\* refactor, docs, test, style, perf
default_allowed_change_types ==
    <<<<"f", "e", "a", "t">>,
      <<"f", "i", "x">>,
      <<"c", "h", "o", "r", "e">>,
      <<"r", "e", "f", "a", "c", "t", "o", "r">>,
      <<"d", "o", "c", "s">>,
      <<"t", "e", "s", "t">>,
      <<"s", "t", "y", "l", "e">>,
      <<"p", "e", "r", "f">>>>

\* ChangelogConfig::is_allowed_change_type
is_allowed_change_type(config, change_type) ==
    \/ config.allowed_change_types = <<>>
    \/ \E i \in DOMAIN config.allowed_change_types :
          config.allowed_change_types[i] = change_type

\* a validation message about one entry or one version section
validation_message(line_number, text) ==
    [line |-> line_number, text |-> text, note |-> FALSE]

\* validate_entry: the first complaint about the entry, if any
validate_entry(entry, config) ==
    IF ~is_allowed_change_type(config, entry.change_type)
       THEN [some |-> TRUE,
             value |-> validation_message(entry.line_number, "invalid change type")]
    ELSE IF config.require_scope /\ ~entry.scope.some
       THEN [some |-> TRUE,
             value |-> validation_message(entry.line_number,
                           "scope is required but missing")]
    ELSE IF trim(entry.description) = <<>>
       THEN [some |-> TRUE,
             value |-> validation_message(entry.line_number, "description is empty")]
    ELSE [some |-> FALSE]

RECURSIVE validate_entries(_, _, _)

\* the `for entry in &version_section.entries` loop
validate_entries(entries, config, version) ==
    IF entries = <<>>
       THEN <<>>
       ELSE LET issue == validate_entry(Head(entries), config)
            IN  (IF issue.some
                    THEN <<[issue.value EXCEPT !.text = <<"version", version, @>>]>>
                    ELSE <<>>)
                \o validate_entries(Tail(entries), config, version)

RECURSIVE validate_versions(_, _, _)

\* the loop over changelog.versions, iterated in the order `order`
validate_versions(changelog, config, order) ==
    IF order = <<>>
       THEN <<>>
       ELSE LET version_section == changelog.versions[Head(order)]
            IN  (IF version_section.entries = <<>>
                    THEN <<validation_message(0,
                              <<"version", Head(order), "has no changelog entries">>)>>
                    ELSE <<>>)
                \o validate_entries(version_section.entries, config, Head(order))
                \o validate_versions(changelog, config, Tail(order))

\* the messages of the format issues of the parsed document
format_issue_messages(changelog) ==
    [i \in DOMAIN changelog.format_issues |-> changelog.format_issues[i].message]

\* validate_changelog; `order` is the order in which the HashMap of the
\* versions is iterated
validate_changelog(changelog, config, order) ==
    (IF config.enforce_format /\ ~changelog.has_header
        THEN <<validation_message(0, "missing '# CHANGELOG' header")>>
        ELSE <<>>)
    \o format_issue_messages(changelog)
    \o validate_versions(changelog, config, order)

\* has_version_entry that looks at major, minor and patch only
has_version_entry_ignoring_pre(changelog, version) ==
    \E v \in DOMAIN changelog.versions :
        v.major = version.major /\ v.minor = version.minor /\ v.patch = version.patch

\* has_version_entry: Changelog::has_version, HashMap::contains_key
has_version_entry(changelog, version) == version \in DOMAIN changelog.versions

----------------------------------------------------------------------------
(* Changelog analysis: changelog_checker.rs.  What the changelog of a crate *)
(* holds is given by a record `read`: has_changelog (the file exists),      *)
(* parsed (parse_changelog succeeds), validation_messages (what             *)
(* validate_changelog returns) and has_version_entry (has_version_entry for *)
(* the current version).                                                    *)

\* ChangelogConfig::default
default_changelog_config ==
    [changelog_file_name |-> "CHANGELOG.md", require_changelog |-> TRUE,
     enforce_format |-> TRUE,
     allowed_change_types |-> default_allowed_change_types,
     require_scope |-> FALSE,
     check_changelog_updated |-> TRUE, allow_missing_for_transitive |-> TRUE]

\* Path::strip_prefix, falling back to the path itself
strip_prefix_or_self(path, prefix) ==
    IF IsPrefix(prefix, path) THEN SubSeq(path, Len(prefix) + 1, Len(path))
                              ELSE path

\* add_issue with the error counter left alone
add_issue_uncounted(counters, severity_config, issue_type, message) ==
    [counters EXCEPT
        !.issues = Append(@, Issue(get_severity(severity_config, issue_type),
                                   issue_type, message)),
        !.total_issues = @ + 1]

\* add_issue: the issue is pushed and counted by its severity;
\* counters = [issues, total_issues, total_errors, total_warnings]
add_issue(counters, severity_config, issue_type, message) ==
    LET severity == get_severity(severity_config, issue_type)
    IN  [counters EXCEPT
            !.issues = Append(@, Issue(severity, issue_type, message)),
            !.total_issues = @ + 1,
            !.total_errors = IF severity = "Error" THEN @ + 1 ELSE @,
            !.total_warnings = IF severity = "Error" THEN @ ELSE @ + 1]

RECURSIVE add_format_issues(_, _, _)

\* the `for message in validation_messages` loop
add_format_issues(counters, severity_config, messages) ==
    IF messages = <<>>
       THEN counters
       ELSE add_format_issues(
               add_issue(counters, severity_config, "BadFormat", Head(messages)),
               severity_config, Tail(messages))

\* what process_changelog learns from the changelog file of a crate: whether
\* it exists, whether parse_changelog can read it, what validate_changelog
\* says about it and whether has_version_entry finds the current version;
\* `order` is the order in which validate_changelog meets the versions
read_changelog(file, config, current_version, order) ==
    IF ~file.exists
       THEN [has_changelog |-> FALSE]
       ELSE LET parsed == parse_changelog(file)
            IN  IF ~parsed.ok
                   THEN [has_changelog |-> TRUE, parsed |-> FALSE]
                   ELSE [has_changelog |-> TRUE, parsed |-> TRUE,
                         validation_messages |->
                             validate_changelog(parsed.changelog, config, order),
                         has_version_entry |->
                             has_version_entry(parsed.changelog, current_version)]

\* process_changelog; check_git_update is [some |-> FALSE] or carries
\* repo_path, changed_files and is_directly_changed
process_changelog(read, changelog_path, config, severity_config, counters, check_git_update) ==
    IF ~read.has_changelog
       THEN [counters |-> IF config.require_changelog
                             THEN add_issue(counters, severity_config,
                                      "MissingChangelog", "missing file")
                             ELSE counters,
             format_valid |-> FALSE, current_version_has_entry |-> FALSE,
             changelog_was_updated |-> FALSE]
    ELSE IF ~read.parsed
       THEN [counters |-> add_issue(counters, severity_config, "BadFormat",
                                    "failed to parse changelog"),
             format_valid |-> FALSE, current_version_has_entry |-> FALSE,
             changelog_was_updated |-> FALSE]
    ELSE LET format_valid == read.validation_messages = <<>>
             c1 == add_format_issues(counters, severity_config,
                                     read.validation_messages)
             c2 == IF ~read.has_version_entry /\ config.require_changelog
                      THEN add_issue(c1, severity_config, "MissingVersionEntry",
                                     "missing changelog entry for current version")
                      ELSE c1
             checks_update == check_git_update.some /\ config.check_changelog_updated
             changelog_was_updated ==
                 /\ checks_update
                 /\ strip_prefix_or_self(changelog_path, check_git_update.repo_path)
                        \in Range(check_git_update.changed_files)
             c3 == IF /\ checks_update
                      /\ check_git_update.is_directly_changed
                      /\ ~changelog_was_updated
                      THEN add_issue(c2, severity_config, "ChangelogNotUpdated",
                                     "crate was modified but changelog was not updated")
                      ELSE c2
         IN  [counters |-> c3, format_valid |-> format_valid,
              current_version_has_entry |-> read.has_version_entry,
              changelog_was_updated |-> changelog_was_updated]

\* get_severity_config
get_severity_config(is_directly_changed, direct_severity, transitive_severity) ==
    IF is_directly_changed THEN direct_severity ELSE transitive_severity

\* should_skip_crate that does not ask whether the crate is directly changed
should_skip_crate_direct_too(is_directly_changed, has_changelog, config) ==
    config.allow_missing_for_transitive /\ ~has_changelog

\* should_skip_crate
should_skip_crate(is_directly_changed, has_changelog, config) ==
    ~is_directly_changed /\ config.allow_missing_for_transitive /\ ~has_changelog

\* the end of the loop body of analyze_for_changes and analyze_all: the
\* status is built, the crate is categorised, the status is stored
record_changelog_status(acc, crate_id, read, result, needs_update) ==
    LET status == [crate_id |-> crate_id,
                   has_changelog |-> read.has_changelog,
                   format_valid |-> result.format_valid,
                   current_version_has_entry |-> result.current_version_has_entry,
                   changelog_was_updated |-> result.changelog_was_updated,
                   issues |-> result.counters.issues]
    IN  [statuses |-> [id \in DOMAIN acc.statuses \cup {crate_id} |->
                          IF id = crate_id THEN status ELSE acc.statuses[id]],
         crates_with_valid_changelog |->
             IF /\ read.has_changelog
                /\ result.format_valid
                /\ result.current_version_has_entry
                THEN Append(acc.crates_with_valid_changelog, crate_id)
                ELSE acc.crates_with_valid_changelog,
         crates_missing_changelog |->
             IF /\ ~(/\ read.has_changelog
                     /\ result.format_valid
                     /\ result.current_version_has_entry)
                /\ ~read.has_changelog
                THEN Append(acc.crates_missing_changelog, crate_id)
                ELSE acc.crates_missing_changelog,
         crates_needing_changelog_update |->
             IF needs_update
                THEN Append(acc.crates_needing_changelog_update, crate_id)
                ELSE acc.crates_needing_changelog_update,
         total_issues |-> result.counters.total_issues,
         total_errors |-> result.counters.total_errors,
         total_warnings |-> result.counters.total_warnings]

\* the counters handed to process_changelog: a fresh issue list, the running
\* totals
issue_counters(acc) ==
    [issues |-> <<>>, total_issues |-> acc.total_issues,
     total_errors |-> acc.total_errors, total_warnings |-> acc.total_warnings]

\* ChangelogAnalysis before the first crate
empty_changelog_analysis ==
    [statuses |-> <<>>, crates_with_valid_changelog |-> <<>>,
     crates_missing_changelog |-> <<>>, crates_needing_changelog_update |-> <<>>,
     total_issues |-> 0, total_errors |-> 0, total_warnings |-> 0]

\* ChangelogAnalysis::add_status: the list to which it pushes the crate of
\* the status
add_status_list(status) ==
    IF ~status.has_changelog
       THEN "crates_missing_changelog"
    ELSE IF status.format_valid /\ status.current_version_has_entry
       THEN "crates_with_valid_changelog"
    ELSE "crates_needing_changelog_update"

\* ChangelogAnalysis::all_valid
all_valid(analysis) ==
    /\ analysis.crates_missing_changelog = <<>>
    /\ analysis.crates_needing_changelog_update = <<>>

\* ChangelogAnalysis::compliance_percentage
compliance_percentage(analysis) ==
    LET total == Cardinality(DOMAIN analysis.statuses)
    IN  IF total = 0
           THEN percent_100
           ELSE percent_of(Len(analysis.crates_with_valid_changelog), total)

RECURSIVE analyze_for_changes_loop(_, _, _, _, _, _, _, _)

\* the loop of analyze_for_changes over version_analysis.crate_versions, in
\* the order `keys`
analyze_for_changes_loop(keys, repo_path, config, direct_severity, transitive_severity, impact_analysis, reads, acc) ==
    IF keys = <<>>
       THEN acc
       ELSE LET crate_id == Head(keys)
                next(a) == analyze_for_changes_loop(Tail(keys), repo_path, config,
                               direct_severity, transitive_severity,
                               impact_analysis, reads, a)
            IN  IF crate_id \notin DOMAIN crates
                   THEN next(acc)
                ELSE LET read == reads[crate_id]
                         changelog_path ==
                             join(crates[crate_id].path, <<config.changelog_file_name>>)
                         is_directly_changed ==
                             crate_id \in Range(impact_analysis.directly_affected_crates)
                     IN  IF should_skip_crate(is_directly_changed,
                                              read.has_changelog, config)
                            THEN next(acc)
                            ELSE LET result ==
                                         process_changelog(read, changelog_path, config,
                                             get_severity_config(is_directly_changed,
                                                 direct_severity, transitive_severity),
                                             issue_counters(acc),
                                             [some |-> TRUE, repo_path |-> repo_path,
                                              changed_files |->
                                                  impact_analysis.changed_files,
                                              is_directly_changed |->
                                                  is_directly_changed])
                                 IN  next(record_changelog_status(acc, crate_id, read,
                                         result,
                                         /\ is_directly_changed
                                         /\ \/ ~read.has_changelog
                                            \/ ~result.current_version_has_entry))

\* analyze_for_changes; `keys` is the order in which the HashMap of the
\* version statuses is iterated
analyze_for_changes(keys, repo_path, config, direct_severity, transitive_severity, impact_analysis, reads) ==
    analyze_for_changes_loop(keys, repo_path, config, direct_severity,
        transitive_severity, impact_analysis, reads, empty_changelog_analysis)

RECURSIVE analyze_all_loop(_, _, _, _, _)

\* the loop of analyze_all over graph.crates, in the order `values`
analyze_all_loop(values, config, severity_config, reads, acc) ==
    IF values = <<>>
       THEN acc
       ELSE LET crate_id == Head(values)
                read == reads[crate_id]
                changelog_path ==
                    join(crates[crate_id].path, <<config.changelog_file_name>>)
                result ==
                    IF Version_parse(crates[crate_id].version).ok
                       THEN process_changelog(read, changelog_path, config,
                                severity_config, issue_counters(acc),
                                [some |-> FALSE])
                       ELSE [counters |-> add_issue(issue_counters(acc),
                                              severity_config, "BadFormat",
                                              "invalid version in Cargo.toml"),
                             format_valid |-> FALSE,
                             current_version_has_entry |-> FALSE,
                             changelog_was_updated |-> FALSE]
            IN  analyze_all_loop(Tail(values), config, severity_config, reads,
                    record_changelog_status(acc, crate_id, read, result,
                        ~read.has_changelog \/ ~result.current_version_has_entry))

\* analyze_all
analyze_all(values, config, severity_config, reads) ==
    analyze_all_loop(values, config, severity_config, reads,
                     empty_changelog_analysis)

----------------------------------------------------------------------------
(* check-versions: bin/main.rs *)

\* the errors of the version bumps alone
combined_total_errors_without_changelog(version_analysis, changelog_analysis) ==
    version_analysis.total_errors

\* total_errors of handle_check_versions: the errors of the version bumps
\* plus those of the changelogs when they were analysed
combined_total_errors(version_analysis, changelog_analysis) ==
    version_analysis.total_errors
    + (IF changelog_analysis.some THEN changelog_analysis.value.total_errors ELSE 0)

\* handle_check_versions.  run.command is what the run is given (config,
\* skip_changelog, all_crates); the other fields are what it meets in the
\* repository, as far as it gets: build_ok, changed_files, disk, values,
\* keys, base_reads, changelog_reads
handle_check_versions(run) ==
    IF ~run.build_ok
       THEN [outcome |-> "failed", error |-> "failed to build dependency graph"]
    ELSE LET impact_analysis ==
                 analyze_git_changes(run.changed_files, run.disk, run.values)
         IN  IF ~impact_analysis.ok
                THEN [outcome |-> "failed",
                      error |-> "failed to analyze git changes"]
             ELSE IF impact_analysis.changed_files = <<>>
                THEN [outcome |-> "ok", impact_analysis |-> impact_analysis]
             ELSE LET version_analysis ==
                          analyze_version_bumps(
                              impact_analysis.all_affected_crates,
                              impact_analysis.directly_affected_crates,
                              run.command.config.direct_severity,
                              run.command.config.transitive_severity, run.base_reads)
                      changelog_analysis ==
                          IF run.command.skip_changelog
                             THEN [some |-> FALSE]
                          ELSE IF run.command.all_crates
                             THEN [some |-> TRUE,
                                   value |-> analyze_all(run.keys,
                                       run.command.config.changelog,
                                       run.command.config.direct_severity,
                                       run.changelog_reads)]
                          ELSE [some |-> TRUE,
                                value |-> analyze_for_changes(
                                    SelectSeq(run.keys, LAMBDA id :
                                        id \in DOMAIN version_analysis.crate_versions),
                                    RepoPath, run.command.config.changelog,
                                    run.command.config.direct_severity,
                                    run.command.config.transitive_severity,
                                    impact_analysis, run.changelog_reads)]
                      total_errors ==
                          combined_total_errors(version_analysis, changelog_analysis)
                  IN  [outcome |-> IF total_errors > 0 THEN "failed" ELSE "ok",
                       error |-> IF total_errors > 0 THEN "validation failed"
                                                     ELSE "none",
                       impact_analysis |-> impact_analysis,
                       version_analysis |-> version_analysis,
                       changelog_analysis |-> changelog_analysis,
                       total_errors |-> total_errors]

----------------------------------------------------------------------------
(* The calls *)

\* add_crate for one of the crates `ids`, its version one of versions[id]
AddCrateOf(ids, versions) ==
    /\ last = NoCall
    /\ \E id \in ids :
          /\ \/ id \in DOMAIN node_indices
             \/ /\ Len(graph_nodes) < Len(CrateOrder)
                /\ id = CrateOrder[Len(graph_nodes) + 1]
          /\ \E version \in versions[id] :
                add_crate(CrateInfo(id, version, join(RepoPath, CrateDirs[id])))
    /\ UNCHANGED last

AddCrate == AddCrateOf(CrateIds, [id \in CrateIds |-> {v0_1_0}])

AddDependencyOf(dep_types, max_edges) ==
    /\ last = NoCall
    /\ Len(graph_edges) < max_edges
    /\ \E from \in CrateIds, to \in CrateIds, dep_type \in dep_types :
          add_dependency(from, to, dep_type)
    /\ UNCHANGED last

AddDependency == AddDependencyOf(DependencyType, MaxEdges)

FindAllAffected ==
    /\ last = NoCall
    /\ \E s \in SeqsUpTo(CrateIds, MaxSeeds) :
          last' = [op |-> "find_all_affected_crates", arg |-> s,
                   ret |-> find_all_affected_crates(s)]
    /\ UNCHANGED <<crates, graph_nodes, graph_edges, node_indices>>

HasCycles ==
    /\ last = NoCall
    /\ last' = [op |-> "has_cycles", ret |-> has_cycles]
    /\ UNCHANGED <<crates, graph_nodes, graph_edges, node_indices>>

TopologicalOrder ==
    /\ last = NoCall
    /\ \E r \in topological_order :
          last' = [op |-> "topological_order", ret |-> r]
    /\ UNCHANGED <<crates, graph_nodes, graph_edges, node_indices>>

GetBuildOrder ==
    /\ last = NoCall
    /\ \E r \in get_build_order :
          last' = [op |-> "get_build_order", ret |-> r]
    /\ UNCHANGED <<crates, graph_nodes, graph_edges, node_indices>>

FindCyclesFiltered ==
    /\ last = NoCall
    /\ \E allowed_types \in SUBSET DependencyType :
          last' = [op |-> "find_cycles_filtered", arg |-> allowed_types,
                   ret |-> find_cycles_filtered(allowed_types)]
    /\ UNCHANGED <<crates, graph_nodes, graph_edges, node_indices>>

GetStatistics ==
    /\ last = NoCall
    /\ last' = [op |-> "get_statistics", ret |-> get_statistics]
    /\ UNCHANGED <<crates, graph_nodes, graph_edges, node_indices>>

\* what a diff between two commits can be: every file at most once
ChangeLists ==
    {q \in SeqsUpTo([path : RepoFiles, change_type : ChangeType], MaxChanges) :
        \A i, j \in DOMAIN q : i # j => q[i].path # q[j].path}

\* the working tree, checked out at the newer commit: the files of the
\* repository without those the diff reports as deleted
WorkingTree(changes) ==
    {join(RepoPath, f) : f \in
        {g \in RepoFiles :
            \A i \in DOMAIN changes :
                changes[i].path = g => changes[i].change_type # "Deleted"}}

\* what list_changed_files can return: an error, or the changes
ListChangedFilesResults ==
    {[ok |-> FALSE]} \cup {[ok |-> TRUE, changes |-> q] : q \in ChangeLists}

\* analyze_git_changes when list_changed_files returns one of `results`
AnalyzeGitChangesOf(results) ==
    /\ last = NoCall
    /\ \E changed_files \in results,
          values \in Listings(DOMAIN crates) :
          LET disk == IF changed_files.ok THEN WorkingTree(changed_files.changes)
                                          ELSE WorkingTree(<<>>)
          IN  last' = [op |-> "analyze_git_changes",
                       arg |-> [changed_files |-> changed_files, disk |-> disk],
                       ret |-> analyze_git_changes(changed_files, disk, values)]
    /\ UNCHANGED <<crates, graph_nodes, graph_edges, node_indices>>

AnalyzeGitChanges == AnalyzeGitChangesOf(ListChangedFilesResults)

\* what reading a manifest at the base ref can meet
BaseReads ==
    {[kind |-> k] : k \in {"io_error", "not_found", "bad_toml", "no_version"}}
    \cup {[kind |-> "version", text |-> t] : t \in VersionTexts}

\* the crates whose versions are analysed: c is never added, and stands for
\* a crate the graph does not know
BumpCrateIds == {"a", "b"}

\* the versions their manifests carry now
BumpCrateVersions ==
    [id \in CrateIds |-> IF id = "a" THEN VersionTexts ELSE {v0_1_0, v0_2_0}]

\* what their manifests are at the base ref
BumpBaseReads ==
    [id \in CrateIds |->
        IF id = "a" THEN BaseReads
        ELSE {[kind |-> "not_found"], [kind |-> "version", text |-> v0_1_0]}]

\* the pairs of severity configs the callers pass
SeverityConfigPairs ==
    {[direct |-> default_direct, transitive |-> default_transitive],
     [direct |-> default_transitive, transitive |-> default_direct]}

AnalyzeVersionBumps ==
    /\ last = NoCall
    /\ \E affected_crates \in SeqsUpTo(CrateIds, MaxBumpCrates),
          directly_changed \in SeqsUpTo(CrateIds, MaxBumpCrates - 1),
          severity \in SeverityConfigPairs :
       \E base_reads \in
              [Range(affected_crates) \cap DOMAIN crates -> BaseReads] :
          /\ \A id \in DOMAIN base_reads : base_reads[id] \in BumpBaseReads[id]
          /\ last' = [op |-> "analyze_version_bumps",
                      arg |-> [affected_crates |-> affected_crates,
                               directly_changed |-> directly_changed,
                               direct_severity |-> severity.direct,
                               transitive_severity |-> severity.transitive,
                               base_reads |-> base_reads],
                      ret |-> analyze_version_bumps(affected_crates,
                                  directly_changed, severity.direct,
                                  severity.transitive, base_reads)]
    /\ UNCHANGED <<crates, graph_nodes, graph_edges, node_indices>>

\* the crates of a checked repository
CheckCrateIds == {"a", "b"}

\* the versions of their manifests
CheckCrateVersions ==
    [id \in CrateIds |-> IF id = "a" THEN {v0_2_0, v0_1} ELSE {v0_2_0}]

\* the files a checked diff reports, all of them as modified
CheckChangeLists ==
    {q \in SeqsUpTo([path : {<<"a", "src", "lib.rs">>,
                             <<"a", "src", "b", "src", "lib.rs">>,
                             <<"a", "CHANGELOG.md">>},
                     change_type : {"Modified"}], MaxCheckChanges) :
        \A i, j \in DOMAIN q : i # j => q[i].path # q[j].path}

\* what the base ref holds for the manifests of the checked crates
CheckBaseReads ==
    [id \in CrateIds |->
        IF id = "a" THEN {[kind |-> "not_found"],
                          [kind |-> "version", text |-> v0_1_0]}
        ELSE {[kind |-> "version", text |-> v0_1_0]}]

\* what the changelog of a crate can hold
ChangelogReads ==
    {[has_changelog |-> FALSE], [has_changelog |-> TRUE, parsed |-> FALSE]}
    \cup {[has_changelog |-> TRUE, parsed |-> TRUE, validation_messages |-> m,
           has_version_entry |-> e] :
              m \in {<<>>, <<"invalid entry">>}, e \in BOOLEAN}

\* the changelogs of the checked crates
CheckChangelogReads ==
    [id \in CrateIds |->
        IF id = "a" THEN ChangelogReads
        ELSE {[has_changelog |-> FALSE],
              [has_changelog |-> TRUE, parsed |-> TRUE,
               validation_messages |-> <<>>, has_version_entry |-> TRUE]}]

\* the configurations of a check: the defaults, and one that asks for the
\* changelog of every crate and turns the severities around
CheckConfigs ==
    {[changelog |-> default_changelog_config,
      direct_severity |-> default_direct,
      transitive_severity |-> default_transitive],
     [changelog |-> [default_changelog_config EXCEPT
                        !.allow_missing_for_transitive = FALSE],
      direct_severity |-> default_transitive,
      transitive_severity |-> default_direct]}

\* the command lines: configuration and flags
CheckCommands ==
    [config : CheckConfigs, skip_changelog : BOOLEAN, all_crates : BOOLEAN]

\* the changelogs a run with command c and changes q can meet: none are
\* read when they are skipped, and a changelog the diff reports as modified
\* exists
ChangelogReadsOf(c, q) ==
    IF c.skip_changelog THEN {<<>>}
    ELSE {f \in [DOMAIN crates -> ChangelogReads] :
             \A id \in DOMAIN f :
                /\ f[id] \in CheckChangelogReads[id]
                /\ (\E i \in DOMAIN q :
                       join(RepoPath, q[i].path)
                          = join(crates[id].path, <<"CHANGELOG.md">>))
                     => f[id].has_changelog}

\* the manifests at the base ref a run can meet
BaseReadsOfCheck ==
    {f \in [DOMAIN crates -> BaseReads] :
        \A id \in DOMAIN f : f[id] \in CheckBaseReads[id]}

\* the runs with command c that get the changes q, with what they then read:
\* the working tree, the manifests at the base ref and the changelogs
RunsAnalysing(c, q) ==
    {[command |-> c, build_ok |-> TRUE,
      changed_files |-> [ok |-> TRUE, changes |-> q],
      disk |-> WorkingTree(q), values |-> values, keys |-> keys,
      base_reads |-> base_reads, changelog_reads |-> changelog_reads] :
        values \in Listings(DOMAIN crates),
        keys \in IF c.skip_changelog THEN {<<>>} ELSE Listings(DOMAIN crates),
        base_reads \in BaseReadsOfCheck,
        changelog_reads \in ChangelogReadsOf(c, q)}

\* the runs with command c: one that stops at the graph because discovery
\* fails, one that stops at the diff because git fails, and those that get
\* their changes
CheckRuns(c) ==
    {[command |-> c, build_ok |-> FALSE],
     [command |-> c, build_ok |-> TRUE, changed_files |-> [ok |-> FALSE]]}
    \cup UNION {RunsAnalysing(c, q) : q \in CheckChangeLists}

HandleCheckVersions ==
    /\ last = NoCall
    /\ \E c \in CheckCommands :
       \E run \in CheckRuns(c) :
          last' = [op |-> "handle_check_versions", arg |-> run,
                   ret |-> handle_check_versions(run)]
    /\ UNCHANGED <<crates, graph_nodes, graph_edges, node_indices>>

Return ==
    /\ last # NoCall
    /\ last' = NoCall
    /\ UNCHANGED <<crates, graph_nodes, graph_edges, node_indices>>

Init ==
    /\ crates = <<>>
    /\ graph_nodes = <<>>
    /\ graph_edges = <<>>
    /\ node_indices = <<>>
    /\ last = NoCall

Next ==
    \/ AddCrate
    \/ AddDependency
    \/ FindAllAffected
    \/ Return

Spec == Init /\ [][Next]_vars

----------------------------------------------------------------------------
(* The traversals, one step at a time.  `last` holds the locals of the call *)
(* in progress; `calls`, `pops` and `rounds` count what has been executed.  *)

graph_vars == <<crates, graph_nodes, graph_edges, node_indices>>

\* collect_affected_recursive without the check of the visited set
collect_call_unguarded(crate_id, st) ==
    [st EXCEPT !.affected = Append(@, crate_id),
               !.visited = @ \cup {crate_id},
               !.stack = Append(@, [crate_id |-> crate_id,
                                    dependents |-> get_dependents(crate_id)]),
               !.calls = @ + 1]

\* entering collect_affected_recursive(crate_id): back at once when the
\* crate was visited, otherwise it is recorded and its dependents are fetched
collect_call(crate_id, st) ==
    IF crate_id \in st.visited
       THEN [st EXCEPT !.calls = @ + 1]
       ELSE [st EXCEPT !.affected = Append(@, crate_id),
                       !.visited = @ \cup {crate_id},
                       !.stack = Append(@, [crate_id |-> crate_id,
                                            dependents |-> get_dependents(crate_id)]),
                       !.calls = @ + 1]

\* find_all_affected_crates(directly_affected) begins
StartCollect ==
    /\ last = NoCall
    /\ \E s \in SeqsUpTo(CrateIds, MaxTravSeeds) :
          last' = [op |-> "find_all_affected_crates:run", arg |-> s,
                   todo |-> s, stack |-> <<>>, affected |-> <<>>,
                   visited |-> {}, calls |-> 0, done |-> FALSE]
    /\ UNCHANGED graph_vars

\* one step of find_all_affected_crates / collect_affected_recursive: the
\* outer loop calls for the next seed, the innermost call calls for its next
\* dependent or returns
CollectStep ==
    /\ last.op = "find_all_affected_crates:run"
    /\ ~last.done
    /\ last' =
          IF last.stack = <<>>
             THEN IF last.todo = <<>>
                     THEN [last EXCEPT !.done = TRUE]
                     ELSE collect_call(Head(last.todo),
                                       [last EXCEPT !.todo = Tail(@)])
             ELSE LET top == last.stack[Len(last.stack)]
                  IN  IF top.dependents = <<>>
                         THEN [last EXCEPT !.stack = SubSeq(@, 1, Len(@) - 1)]
                         ELSE collect_call(Head(top.dependents),
                                 [last EXCEPT !.stack[Len(last.stack)].dependents
                                                  = Tail(@)])
    /\ UNCHANGED graph_vars

\* find_affected_crates(changed_crates) begins
StartFindAffected ==
    /\ last = NoCall
    /\ \E s \in SeqsUpTo(CrateIds, MaxTravSeeds) :
          last' = [op |-> "find_affected_crates:run", arg |-> s,
                   to_visit |-> s, affected |-> {}, processed |-> <<>>,
                   pops |-> 0, done |-> FALSE]
    /\ UNCHANGED graph_vars

\* one round of `while let Some(crate_id) = to_visit.pop()`
FindAffectedStep ==
    /\ last.op = "find_affected_crates:run"
    /\ ~last.done
    /\ last' =
          IF last.to_visit = <<>>
             THEN [last EXCEPT !.done = TRUE]
             ELSE LET crate_id == last.to_visit[Len(last.to_visit)]
                      rest == SubSeq(last.to_visit, 1, Len(last.to_visit) - 1)
                  IN  IF crate_id \notin last.affected
                         THEN [last EXCEPT !.affected = @ \cup {crate_id},
                                           !.processed = Append(@, crate_id),
                                           !.to_visit = rest \o get_dependents(crate_id),
                                           !.pops = @ + 1]
                         ELSE [last EXCEPT !.to_visit = rest, !.pops = @ + 1]
    /\ UNCHANGED graph_vars

\* the first dependency of current that is in the cycle and not yet visited
next_in_cycle(current, cycle_crates, visited) ==
    SelectSeq(get_dependencies(current),
              LAMBDA dep : dep \in Range(cycle_crates) /\ dep \notin visited)

\* reconstruct_cycle_chain(cycle) begins, as display_cycles and
\* display_all_cycles call it: for a cycle of find_production_cycles or of
\* find_cycles, its members in any order
StartChain ==
    /\ last = NoCall
    /\ \E c \in find_production_cycles \cup find_cycles :
       \E cycle_crates \in Listings(c) :
          last' = IF cycle_crates = <<>>
                     THEN [op |-> "reconstruct_cycle_chain:run",
                           arg |-> cycle_crates, chain |-> <<>>, visited |-> {},
                           current |-> "", rounds |-> 0, done |-> TRUE]
                     ELSE [op |-> "reconstruct_cycle_chain:run",
                           arg |-> cycle_crates, chain |-> <<cycle_crates[1]>>,
                           visited |-> {cycle_crates[1]},
                           current |-> cycle_crates[1], rounds |-> 0,
                           done |-> FALSE]
    /\ UNCHANGED graph_vars

\* one round of `while chain.len() < cycle_crates.len()`
ChainStep ==
    /\ last.op = "reconstruct_cycle_chain:run"
    /\ ~last.done
    /\ last' =
          IF Len(last.chain) < Len(last.arg)
             THEN LET next == next_in_cycle(last.current, last.arg, last.visited)
                  IN  IF next # <<>>
                         THEN [last EXCEPT !.chain = Append(@, next[1]),
                                           !.visited = @ \cup {next[1]},
                                           !.current = next[1],
                                           !.rounds = @ + 1]
                         ELSE [last EXCEPT !.rounds = @ + 1, !.done = TRUE]
             ELSE [last EXCEPT !.done = TRUE]
    /\ UNCHANGED graph_vars

\* the traversal has returned
TravReturn ==
    /\ last # NoCall
    /\ last.done
    /\ last' = NoCall
    /\ UNCHANGED graph_vars

ImpactNext ==
    \/ AddCrate
    \/ AddDependencyOf({"Normal"}, MaxImpactEdges)
    \/ AnalyzeGitChanges
    \/ Return

ImpactSpec == Init /\ [][ImpactNext]_vars

\* most files of a diff whose owners are looked up
MaxOwnedChanges == 4

\* the diffs whose owners are looked up: modified files, every file at most
\* once
OwnedChangeLists ==
    {q \in SeqsUpTo([path : RepoFiles, change_type : {"Modified"}], MaxOwnedChanges) :
        \A i, j \in DOMAIN q : i # j => q[i].path # q[j].path}

\* the graph and the impact analysis of these diffs
OwnerNext ==
    \/ AddCrate
    \/ AddDependencyOf({"Normal"}, MaxImpactEdges)
    \/ AnalyzeGitChangesOf({[ok |-> TRUE, changes |-> q] : q \in OwnedChangeLists})
    \/ Return

OwnerSpec == Init /\ [][OwnerNext]_vars

CheckNext ==
    \/ AddCrateOf(CheckCrateIds, CheckCrateVersions)
    \/ AddDependencyOf({"Normal"}, MaxImpactEdges)
    \/ HandleCheckVersions
    \/ Return

CheckSpec == Init /\ [][CheckNext]_vars

BumpNext ==
    \/ AddCrateOf(BumpCrateIds, BumpCrateVersions)
    \/ AnalyzeVersionBumps
    \/ Return

BumpSpec == Init /\ [][BumpNext]_vars

TravNext ==
    \/ AddCrate
    \/ AddDependencyOf({"Normal", "Dev"}, MaxEdges)
    \/ StartCollect
    \/ CollectStep
    \/ StartFindAffected
    \/ FindAffectedStep
    \/ StartChain
    \/ ChainStep
    \/ TravReturn

TravSpec == Init /\ [][TravNext]_vars

----------------------------------------------------------------------------
(* find_dependency_path, one round of its loop at a time: graph.rs *)

\* most rounds of the loop that are followed
MaxPathRounds == 4

\* petgraph::algo::dijkstra(graph, start, Some(goal), |_| 1): the nodes it
\* has a distance for hold the goal exactly when the goal is reached from
\* the start over zero or more edges
dijkstra_reaches(start, goal) == goal \in reach_closure({start}, graph_edges)

\* find_dependency_path(from, to) begins: None when a crate is unknown or
\* dijkstra does not reach to_idx, otherwise the path starts as [to]
StartPath ==
    /\ last = NoCall
    /\ \E from \in CrateIds, to \in CrateIds :
          last' =
             IF from \notin DOMAIN node_indices \/ to \notin DOMAIN node_indices
                THEN [op |-> "find_dependency_path:run",
                      arg |-> [from |-> from, to |-> to], path |-> <<>>,
                      current_idx |-> 0, rounds |-> 0, done |-> TRUE,
                      ret |-> [some |-> FALSE]]
             ELSE IF ~dijkstra_reaches(node_indices[from], node_indices[to])
                THEN [op |-> "find_dependency_path:run",
                      arg |-> [from |-> from, to |-> to], path |-> <<>>,
                      current_idx |-> 0, rounds |-> 0, done |-> TRUE,
                      ret |-> [some |-> FALSE]]
             ELSE [op |-> "find_dependency_path:run",
                   arg |-> [from |-> from, to |-> to], path |-> <<to>>,
                   current_idx |-> node_indices[to], rounds |-> 0,
                   done |-> FALSE, ret |-> [some |-> FALSE]]
    /\ UNCHANGED graph_vars

\* one round of `while current_idx != *from_idx`: the source of the first
\* incoming edge of the current node becomes the current node and is pushed;
\* the loop ends at from_idx or at a node without incoming edge, and the
\* path is reversed and returned
PathStep ==
    /\ last.op = "find_dependency_path:run"
    /\ ~last.done
    /\ last.rounds < MaxPathRounds
    /\ last' =
          IF last.current_idx = node_indices[last.arg.from]
             THEN [last EXCEPT !.done = TRUE,
                               !.ret = [some |-> TRUE, path |-> Reverse(last.path)]]
             ELSE LET incoming == edges_incoming(last.current_idx)
                  IN  IF incoming # <<>>
                         THEN [last EXCEPT
                                  !.current_idx = incoming[1].source,
                                  !.path = Append(@, graph_nodes[incoming[1].source]),
                                  !.rounds = @ + 1]
                         ELSE [last EXCEPT !.done = TRUE,
                                  !.ret = [some |-> TRUE,
                                           path |-> Reverse(last.path)]]
    /\ UNCHANGED graph_vars

PathNext ==
    \/ AddCrate
    \/ AddDependencyOf({"Normal"}, MaxEdges)
    \/ StartPath
    \/ PathStep
    \/ TravReturn

PathSpec == Init /\ [][PathNext]_vars


\* the graph with the cycle, order and statistics queries
CycleNext ==
    \/ AddCrate
    \/ AddDependency
    \/ FindCyclesFiltered
    \/ GetStatistics
    \/ HasCycles
    \/ TopologicalOrder
    \/ GetBuildOrder
    \/ Return

CycleSpec == Init /\ [][CycleNext]_vars

\* the crates of a graph whose statistics are taken
StatisticsCrateIds == {"a", "b"}

\* most edges of such a graph
MaxStatisticsEdges == 4

\* the graph of two crates with Normal and Dev edges, and its statistics
StatisticsNext ==
    \/ AddCrateOf(StatisticsCrateIds, [id \in CrateIds |-> {v0_1_0}])
    \/ AddDependencyOf({"Normal", "Dev"}, MaxStatisticsEdges)
    \/ GetStatistics
    \/ Return

StatisticsSpec == Init /\ [][StatisticsNext]_vars

----------------------------------------------------------------------------
(* Changelog files and the calls that read them *)

\* the lines a changelog of the model is written with
\* `# CHANGELOG`
ln_changelog_header == <<"#", " ", "C", "H", "A", "N", "G", "E", "L", "O", "G">>

\* `# Changelog`
ln_changelog_mixed_case == <<"#", " ", "C", "h", "a", "n", "g", "e", "l", "o", "g">>

\* `# 0.1.0`
ln_version_0_1_0 == <<"#", " ", "0", ".", "1", ".", "0">>

\* `# v0.2.0`
ln_version_v0_2_0 == <<"#", " ", "v", "0", ".", "2", ".", "0">>

\* `# 0.1.0-alpha`
ln_version_0_1_0_alpha == <<"#", " ", "0", ".", "1", ".", "0", "-", "a", "l", "p", "h", "a">>

\* `# [0.1.0]`
ln_version_bracketed == <<"#", " ", "[", "0", ".", "1", ".", "0", "]">>

\* `# banana`
ln_version_unparsable == <<"#", " ", "b", "a", "n", "a", "n", "a">>

\* `## 0.2.0`
ln_two_hashes_version == <<"#", "#", " ", "0", ".", "2", ".", "0">>

\* `## [v0.2.0]`
ln_two_hashes_bracketed == <<"#", "#", " ", "[", "v", "0", ".", "2", ".", "0", "]">>

\* `## Added`
ln_two_hashes_added == <<"#", "#", " ", "A", "d", "d", "e", "d">>

\* `### Added`
ln_three_hashes_added == <<"#", "#", "#", " ", "A", "d", "d", "e", "d">>

\* `* feat(api): x`
ln_star_entry == <<"*", " ", "f", "e", "a", "t", "(", "a", "p", "i", ")", ":", " ", "x">>

\* `* feat: x`
ln_star_entry_unscoped == <<"*", " ", "f", "e", "a", "t", ":", " ", "x">>

\* `* feat(): x`
ln_star_entry_empty_scope == <<"*", " ", "f", "e", "a", "t", "(", ")", ":", " ", "x">>

\* `* zap(api): x`
ln_star_entry_other_type == <<"*", " ", "z", "a", "p", "(", "a", "p", "i", ")", ":", " ", "x">>

\* `- fix: y`
ln_dash_entry == <<"-", " ", "f", "i", "x", ":", " ", "y">>

\* `- fix:`
ln_dash_entry_malformed == <<"-", " ", "f", "i", "x", ":">>

\* ` `
ln_blank == <<" ">>

\* the longest changelog that is parsed
MaxLines == 3

\* the lines of the parsed changelogs
ChangelogLines ==
    {ln_changelog_header, ln_changelog_mixed_case, ln_version_0_1_0,
     ln_version_v0_2_0, ln_version_bracketed, ln_version_unparsable,
     ln_two_hashes_version, ln_two_hashes_bracketed, ln_two_hashes_added,
     ln_three_hashes_added, ln_star_entry, ln_dash_entry,
     ln_dash_entry_malformed}

\* the changelog files: one that cannot be read, and every text of up to
\* MaxLines lines
ChangelogFiles ==
    {[readable |-> FALSE]}
    \cup {[readable |-> TRUE, lines |-> lines] :
             lines \in SeqsUpTo(ChangelogLines, MaxLines)}

ParseChangelog ==
    /\ last = NoCall
    /\ \E file \in ChangelogFiles :
          last' = [op |-> "parse_changelog", arg |-> file,
                   ret |-> parse_changelog(file)]
    /\ UNCHANGED <<crates, graph_nodes, graph_edges, node_indices>>

ParseNext ==
    \/ ParseChangelog
    \/ Return

ParseSpec == Init /\ [][ParseNext]_vars

\* the longest changelog that is processed
MaxProcessLines == 3

\* the lines of the processed changelogs
ProcessLines ==
    {ln_changelog_header, ln_version_0_1_0, ln_version_0_1_0_alpha,
     ln_version_unparsable, ln_star_entry, ln_star_entry_unscoped,
     ln_star_entry_empty_scope, ln_star_entry_other_type}

\* the changelog of a crate: none, one that cannot be read, or a text of up
\* to MaxProcessLines lines
ProcessFiles ==
    {[exists |-> FALSE], [exists |-> TRUE, readable |-> FALSE]}
    \cup {[exists |-> TRUE, readable |-> TRUE, lines |-> lines] :
             lines \in SeqsUpTo(ProcessLines, MaxProcessLines)}

\* the configurations a changelog is processed under: every choice of
\* enforce_format, require_scope and of the default or the empty list of
\* allowed change types, and the defaults without require_changelog
ProcessConfigs ==
    {[default_changelog_config EXCEPT
         !.enforce_format = e, !.require_scope = s, !.allowed_change_types = a] :
        e \in BOOLEAN, s \in BOOLEAN, a \in {default_allowed_change_types, <<>>}}
    \cup {[default_changelog_config EXCEPT !.require_changelog = FALSE]}

\* the current version of the crate: 0.1.0 or 0.1.0-alpha
ProcessVersions ==
    {Version_parse(v0_1_0).version, Version_parse(v0_1_0_alpha).version}

\* the orders in which the versions of the changelog of `file` can be met
VersionOrders(file) ==
    IF file.exists /\ file.readable
       THEN Listings(DOMAIN parse_changelog(file).changelog.versions)
       ELSE {<<>>}

\* process_changelog for the changelog `file` of a crate at current_version,
\* as analyze_all calls it: no git context, counters at zero
ProcessChangelog ==
    /\ last = NoCall
    /\ \E file \in ProcessFiles, config \in ProcessConfigs,
          current_version \in ProcessVersions :
       \E order \in VersionOrders(file) :
          last' = [op |-> "process_changelog",
                   arg |-> [file |-> file, config |-> config,
                            current_version |-> current_version],
                   ret |-> process_changelog(
                               read_changelog(file, config, current_version, order),
                               join(RepoPath, <<"a", config.changelog_file_name>>),
                               config, default_direct,
                               issue_counters(empty_changelog_analysis),
                               [some |-> FALSE])]
    /\ UNCHANGED <<crates, graph_nodes, graph_edges, node_indices>>

ProcessNext ==
    \/ ProcessChangelog
    \/ Return

ProcessSpec == Init /\ [][ProcessNext]_vars

\* the most files a diff reports to the changelog analysis
MaxChangelogChanges == 2

\* the crates of a repository whose changelogs are analysed
ChangelogCrateIds == {"a", "b"}

\* the files such a diff can report: a source file of a and the changelogs
\* of a and of b
ChangelogChangedFiles ==
    {<<"a", "src", "lib.rs">>, <<"a", "CHANGELOG.md">>,
     <<"a", "src", "b", "CHANGELOG.md">>}

\* the changed-file lists of the impact analysis: up to MaxChangelogChanges
\* of these files, each once, in the order of the diff
ChangelogChangeLists ==
    {q \in SeqsUpTo(ChangelogChangedFiles, MaxChangelogChanges) :
        \A i, j \in DOMAIN q : i # j => q[i] # q[j]}

\* a changelog with a section for 0.1.0 and one entry
file_complete ==
    [exists |-> TRUE, readable |-> TRUE,
     lines |-> <<ln_changelog_header, ln_version_0_1_0, ln_star_entry>>]

\* a changelog with nothing but a header that is not a version
file_unparsable_header ==
    [exists |-> TRUE, readable |-> TRUE, lines |-> <<ln_version_unparsable>>]

\* the changelog file a crate can have
ChangelogFilesOf ==
    [id \in CrateIds |->
        IF id = "a" THEN {[exists |-> FALSE], [exists |-> TRUE, readable |-> FALSE],
                          file_complete, file_unparsable_header}
        ELSE {[exists |-> FALSE], file_complete}]

\* the configurations of the analysis: every choice of require_changelog,
\* check_changelog_updated and allow_missing_for_transitive
ChangelogConfigs ==
    {[default_changelog_config EXCEPT
         !.require_changelog = r, !.check_changelog_updated = u,
         !.allow_missing_for_transitive = t] :
        r \in BOOLEAN, u \in BOOLEAN, t \in BOOLEAN}

\* the crates S in the order of CrateOrder
InCrateOrder(S) == SelectSeq(CrateOrder, LAMBDA id : id \in S)

\* what process_changelog learns from the files of the crates of the graph
\* (the changelogs of the model have one version at most, so that
\* validate_changelog meets them in one order only)
reads_of(files, config) ==
    [id \in DOMAIN files |->
        read_changelog(files[id], config,
                       Version_parse(crates[id].version).version,
                       CHOOSE order \in VersionOrders(files[id]) : TRUE)]

\* analyze_for_changes for the version statuses of the crates `keys`, an
\* impact analysis with the given changed files and directly affected
\* crates, and the changelog files of the crates
AnalyzeForChanges ==
    /\ last = NoCall
    /\ \E keys \in UNION {Listings(S) : S \in SUBSET ChangelogCrateIds},
          directly \in SUBSET ChangelogCrateIds,
          changed_files \in ChangelogChangeLists,
          config \in ChangelogConfigs :
       \E files \in {f \in [DOMAIN crates -> UNION Range(ChangelogFilesOf)] :
                        \A id \in DOMAIN f : f[id] \in ChangelogFilesOf[id]} :
          LET impact_analysis ==
                  [changed_files |-> changed_files,
                   directly_affected_crates |-> InCrateOrder(directly)]
          IN  last' = [op |-> "analyze_for_changes",
                       arg |-> [keys |-> keys, config |-> config,
                                impact_analysis |-> impact_analysis,
                                files |-> files],
                       ret |-> analyze_for_changes(keys, RepoPath, config,
                                   default_direct, default_transitive,
                                   impact_analysis, reads_of(files, config))]
    /\ UNCHANGED <<crates, graph_nodes, graph_edges, node_indices>>

ChangelogNext ==
    \/ AddCrateOf(ChangelogCrateIds, [id \in CrateIds |-> {v0_1_0}])
    \/ AnalyzeForChanges
    \/ Return

ChangelogSpec == Init /\ [][ChangelogNext]_vars

----------------------------------------------------------------------------
(* The mutators of the graph as calls: types.rs, graph.rs.  A call stores    *)
(* its arguments, the graph as it was when the call began and the returned  *)
(* value in `last`.                                                         *)

\* the crates this graph gets: c is never added, and stands for a crate the
\* graph does not know
GraphCrateIds == {"a", "b"}

\* the versions their manifests carry
GraphCrateVersions ==
    [id \in CrateIds |-> IF id = "a" THEN {v0_1_0, v0_2_0} ELSE {v0_1_0}]

\* most edges the graph has when add_dependency is called
MaxGraphEdges == 2

\* the kinds of the edges the callers add
GraphDependencyTypes == {"Normal", "Dev"}

\* the graph as it is
graph_state ==
    [crates |-> crates, graph_nodes |-> graph_nodes,
     graph_edges |-> graph_edges, node_indices |-> node_indices]

\* a call of add_crate
AddCrateCall ==
    /\ last = NoCall
    /\ \E id \in GraphCrateIds :
          /\ \/ id \in DOMAIN node_indices
             \/ /\ Len(graph_nodes) < Len(CrateOrder)
                /\ id = CrateOrder[Len(graph_nodes) + 1]
          /\ \E version \in GraphCrateVersions[id] :
                LET crate_info == CrateInfo(id, version, join(RepoPath, CrateDirs[id]))
                IN  /\ add_crate(crate_info)
                    /\ last' = [op |-> "add_crate", arg |-> crate_info,
                                before |-> graph_state, ret |-> "unit"]

\* a call of add_dependency
AddDependencyCall ==
    /\ last = NoCall
    /\ Len(graph_edges) <= MaxGraphEdges
    /\ \E from \in CrateIds, to \in CrateIds, dep_type \in GraphDependencyTypes :
          /\ add_dependency(from, to, dep_type)
          /\ last' = [op |-> "add_dependency",
                      arg |-> [from |-> from, to |-> to, dep_type |-> dep_type],
                      before |-> graph_state, ret |-> "unit"]

\* what parse_local_dependencies_with_types can meet when it reads the
\* manifest of a crate: a file it cannot read, or the dependency tables, as
\* the list of their entries (serde is a crate of the registry, not of the
\* repository)
Manifests ==
    {[readable |-> FALSE],
     [readable |-> TRUE, deps |-> <<>>],
     [readable |-> TRUE, deps |-> <<[name |-> "b", dep_type |-> "Normal"]>>],
     [readable |-> TRUE, deps |-> <<[name |-> "serde", dep_type |-> "Normal"],
                                    [name |-> "a", dep_type |-> "Dev"]>>]}

\* parse_local_dependencies_with_types: Err for a manifest that cannot be
\* read, otherwise the entries that name a crate of all_crates
parse_local_dependencies_with_types(manifest, all_crates) ==
    IF ~manifest.readable
       THEN [ok |-> FALSE, err |-> "FileReadError"]
       ELSE [ok |-> TRUE,
             local_deps |-> SelectSeq(manifest.deps,
                                LAMBDA d : d.name \in Range(all_crates))]

\* add_dependency on the edge list `edges`
add_dependency_to(edges, from, to, dep_type) ==
    IF from \in DOMAIN node_indices /\ to \in DOMAIN node_indices
       THEN Append(edges, [source |-> node_indices[from],
                           target |-> node_indices[to], weight |-> dep_type])
       ELSE edges

RECURSIVE rebuild_add_local_deps(_, _, _, _)

\* the `for (dep_name, dep_type) in local_deps` loop of rebuild_dependencies;
\* a CrateId is its name, so the crate found by name is dep_name
rebuild_add_local_deps(local_deps, crate_id, all_crates, edges) ==
    IF local_deps = <<>>
       THEN edges
       ELSE rebuild_add_local_deps(Tail(local_deps), crate_id, all_crates,
               IF Head(local_deps).name \in Range(all_crates)
                  THEN add_dependency_to(edges, crate_id, Head(local_deps).name,
                                         Head(local_deps).dep_type)
                  ELSE edges)

RECURSIVE rebuild_dependencies_loop(_, _, _, _)

\* the `for crate_info in &all_crates` loop of rebuild_dependencies: `?`
\* leaves the loop at the first manifest that cannot be read, with the edges
\* added so far
rebuild_dependencies_loop(todo, all_crates, manifests, edges) ==
    IF todo = <<>>
       THEN [ok |-> TRUE, graph_edges |-> edges]
       ELSE LET local_deps == parse_local_dependencies_with_types(
                                  manifests[Head(todo)], all_crates)
            IN  IF ~local_deps.ok
                   THEN [ok |-> FALSE, err |-> local_deps.err,
                         graph_edges |-> edges]
                   ELSE rebuild_dependencies_loop(Tail(todo), all_crates,
                           manifests,
                           rebuild_add_local_deps(local_deps.local_deps,
                               Head(todo), all_crates, edges))

\* rebuild_dependencies: the edges are cleared, then added again from the
\* manifests; all_crates is the HashMap of the crates in the order of its
\* iteration
rebuild_dependencies(all_crates, manifests) ==
    rebuild_dependencies_loop(all_crates, all_crates, manifests, <<>>)

\* a call of rebuild_dependencies
RebuildDependencies ==
    /\ last = NoCall
    /\ \E all_crates \in Listings(DOMAIN crates),
          manifests \in [DOMAIN crates -> Manifests] :
          LET result == rebuild_dependencies(all_crates, manifests)
          IN  /\ graph_edges' = result.graph_edges
              /\ last' = [op |-> "rebuild_dependencies",
                          arg |-> [manifests |-> manifests],
                          before |-> graph_state,
                          ret |-> IF result.ok THEN [ok |-> TRUE]
                                  ELSE [ok |-> FALSE, err |-> result.err]]
    /\ UNCHANGED <<crates, graph_nodes, node_indices>>

GraphNext ==
    \/ AddCrateCall
    \/ AddDependencyCall
    \/ RebuildDependencies
    \/ Return

GraphSpec == Init /\ [][GraphNext]_vars

----------------------------------------------------------------------------
(* Graph notions the properties are stated in *)

\* some edge, of any kind, says that p depends on q
DependsOn(p, q) ==
    \E i \in DOMAIN graph_edges :
        /\ graph_nodes[graph_edges[i].source] = p
        /\ graph_nodes[graph_edges[i].target] = q

\* some edge whose kind is in kinds says that p depends on q
DependsOnBy(p, q, kinds) ==
    \E i \in DOMAIN graph_edges :
        /\ graph_nodes[graph_edges[i].source] = p
        /\ graph_nodes[graph_edges[i].target] = q
        /\ graph_edges[i].weight \in kinds

RECURSIVE PathWithin(_, _, _, _)

\* a chain of one to n dependency edges of these kinds leads from p to q
PathWithin(p, q, kinds, n) ==
    \/ DependsOnBy(p, q, kinds)
    \/ /\ n > 1
       /\ \E r \in CrateIds :
             DependsOnBy(p, r, kinds) /\ PathWithin(r, q, kinds, n - 1)

\* a chain of one or more dependency edges of these kinds leads from p to q
\* (a shortest one has at most as many edges as there are crates)
PathBy(p, q, kinds) == PathWithin(p, q, kinds, Cardinality(CrateIds))

\* the crates reached from a member of S along reverse-dependency edges of
\* any kind: the members of S and the crates that depend on one of them
\* through a chain of edges
ReachedByDependents(S) ==
    S \cup {p \in CrateIds : \E q \in S : PathBy(p, q, DependencyType)}

\* some cycle of the graph uses only edges of these kinds
CycleExistsBy(kinds) == \E p \in CrateIds : PathBy(p, p, kinds)

\* the strongly connected components, over the edges of these kinds, that
\* hold a cycle: more than one member, or one member with a self-loop
CyclicComponents(kinds) ==
    {{q \in DOMAIN crates : q = p \/ (PathBy(p, q, kinds) /\ PathBy(q, p, kinds))} :
        p \in {r \in DOMAIN crates : PathBy(r, r, kinds)}}

\* the cycles without a repeated crate, each written from its member with
\* the least node index
SimpleCycles(kinds) ==
    {c \in SeqsUpTo(CrateIds, Cardinality(CrateIds)) :
        /\ Len(c) >= 1
        /\ \A i, j \in DOMAIN c : i # j => c[i] # c[j]
        /\ \A i \in DOMAIN c : c[i] \in DOMAIN node_indices
        /\ \A i \in 2..Len(c) : node_indices[c[1]] < node_indices[c[i]]
        /\ \A i \in 1..(Len(c) - 1) : DependsOnBy(c[i], c[i + 1], kinds)
        /\ DependsOnBy(c[Len(c)], c[1], kinds)}

\* the order lists every crate once, each crate after all it depends on
DependencyFirst(order) ==
    /\ Len(order) = Cardinality(DOMAIN crates)
    /\ Range(order) = DOMAIN crates
    /\ \A i, j \in DOMAIN order :
          DependsOn(order[i], order[j]) => j < i

----------------------------------------------------------------------------
(* C1 *)

\* C1: the all_affected list is, as a set, the reflexive-transitive closure
\* of the directly affected list S under the dependents relation: it holds
\* every member of S, every dependent of each of its members, and nothing
\* that is not reached from S along reverse-dependency edges of any kind.
C1_AllAffectedIsClosure ==
    last.op = "find_all_affected_crates" =>
        /\ Range(last.arg) \subseteq Range(last.ret)
        /\ \A p \in Range(last.ret) : \A d \in CrateIds :
               DependsOn(d, p) => d \in Range(last.ret)
        /\ Range(last.ret) \subseteq ReachedByDependents(Range(last.arg))

\* one changed crate, and the closure adds two crates over edges of two kinds
C1_Witness ==
    /\ last.op = "find_all_affected_crates"
    /\ Len(last.arg) = 1
    /\ Cardinality(Range(last.ret)) = 3
    /\ \E i, j \in DOMAIN graph_edges :
           graph_edges[i].weight # graph_edges[j].weight

----------------------------------------------------------------------------
(* C6 *)

\* C6: when no cycle consists of Normal edges alone, find_production_cycles
\* is empty, has_cycles is false and cycle_count is 0, while find_cycles and
\* total_cycles_including_dev still report the cycles over all edge kinds:
\* at least one when there is a cycle, exactly one when there is exactly one.
C6_DevCyclesAreNotProductionCycles ==
    (last.op = "get_statistics" /\ ~CycleExistsBy({"Normal"})) =>
        /\ find_production_cycles = {}
        /\ last.ret.has_cycles = FALSE
        /\ last.ret.cycle_count = 0
        /\ last.ret.total_cycles_including_dev = Cardinality(find_cycles)
        /\ CycleExistsBy(DependencyType) <=>
              last.ret.total_cycles_including_dev >= 1
        /\ Cardinality(SimpleCycles(DependencyType)) = 1 =>
              last.ret.total_cycles_including_dev = 1

\* a Normal edge one way and a Dev edge back: one cycle, no production cycle
C6_Witness ==
    /\ last.op = "get_statistics"
    /\ ~CycleExistsBy({"Normal"})
    /\ \E i \in DOMAIN graph_edges : graph_edges[i].weight = "Normal"
    /\ Cardinality(SimpleCycles(DependencyType)) = 1
    /\ last.ret.total_cycles_including_dev = 1
    /\ last.ret.cycle_count = 0

----------------------------------------------------------------------------
(* C7 *)

\* C7: find_cycles_filtered(allowed_types) returns exactly the strongly
\* connected components of the graph restricted to the edges of the allowed
\* kinds that have more than one member or a self-loop of an allowed kind;
\* no crate is in two results.
C7_FilteredCyclesAreComponents ==
    last.op = "find_cycles_filtered" =>
        /\ last.ret = CyclicComponents(last.arg)
        /\ \A c, d \in last.ret : c # d => c \cap d = {}

\* a self-loop of an allowed kind is reported while an edge of another kind
\* is in the graph
C7_Witness ==
    /\ last.op = "find_cycles_filtered"
    /\ \E c \in last.ret : Cardinality(c) = 1
    /\ \E i \in DOMAIN graph_edges : graph_edges[i].weight \notin last.arg

----------------------------------------------------------------------------
(* C8 *)

\* C8: topological_order returns None exactly when the graph over all edge
\* kinds, self-loops included, has a cycle, which is exactly when has_cycles
\* is true, and get_build_order then returns CyclicDependency; otherwise the
\* order holds every crate once, each after the crates it depends on.
C8_TopologicalOrder ==
    /\ last.op = "topological_order" =>
          /\ ~last.ret.some <=> CycleExistsBy(DependencyType)
          /\ ~last.ret.some <=> has_cycles
          /\ last.ret.some => DependencyFirst(last.ret.order)
    /\ last.op = "get_build_order" =>
          /\ has_cycles => (~last.ret.ok /\ last.ret.err = "CyclicDependency")
          /\ ~has_cycles => (last.ret.ok /\ DependencyFirst(last.ret.order))

\* three crates in a chain of two edges get an order
C8_Witness ==
    /\ last.op = "topological_order"
    /\ last.ret.some
    /\ Len(last.ret.order) = 3
    /\ \E p, q, r \in CrateIds :
          p # q /\ q # r /\ p # r /\ DependsOn(p, q) /\ DependsOn(q, r)

----------------------------------------------------------------------------
(* C3 *)

NoDuplicates(q) == \A i, j \in DOMAIN q : i # j => q[i] # q[j]

\* C3: the traversals terminate on every graph, cyclic or not.  The impact
\* closure (collect_affected_recursive, find_affected_crates) processes each
\* crate at most once and makes at most one call or pop per seed and per
\* edge; reconstruct_cycle_chain makes at most as many rounds as the cycle
\* has members; and a traversal that has not returned can always take its
\* next step.
C3_TraversalsTerminate ==
    /\ last.op = "find_all_affected_crates:run" =>
          /\ NoDuplicates(last.affected)
          /\ last.calls <= Len(last.arg) + Len(graph_edges)
          /\ ~last.done => ENABLED CollectStep
    /\ last.op = "find_affected_crates:run" =>
          /\ NoDuplicates(last.processed)
          /\ last.pops <= Len(last.arg) + Len(graph_edges)
          /\ ~last.done => ENABLED FindAffectedStep
    /\ last.op = "reconstruct_cycle_chain:run" =>
          /\ NoDuplicates(last.chain)
          /\ last.rounds <= Len(last.arg)
          /\ ~last.done => ENABLED ChainStep

\* the closure has returned on a graph with a cycle, after a call that found
\* its crate already visited
C3_Witness ==
    /\ last.op = "find_all_affected_crates:run"
    /\ last.done
    /\ CycleExistsBy(DependencyType)
    /\ last.calls > Len(last.affected)
    /\ Len(last.affected) >= 2

----------------------------------------------------------------------------
(* C2 *)

\* the file lies under one of the conventional source roots of the crate
UnderSourceRoots(file, id) ==
    \/ \E i \in DOMAIN source_dirs :
          IsPrefix(join(crates[id].path, <<source_dirs[i]>>), file)
    \/ file = join(crates[id].path, <<"Cargo.toml">>)

\* C2: impact analysis puts a crate in directly_affected whenever a changed
\* file of the diff, tagged Added, Modified or Deleted, lies under one of the
\* source roots of the crate.
C2_ChangedFileAffectsItsCrate ==
    (last.op = "analyze_git_changes" /\ last.ret.ok) =>
        \A id \in DOMAIN crates :
            (\E i \in DOMAIN last.arg.changed_files.changes :
                UnderSourceRoots(
                    join(RepoPath, last.arg.changed_files.changes[i].path), id))
            => id \in Range(last.ret.directly_affected_crates)

\* the only change of the diff deletes a/src/lib.rs, a is the only crate,
\* and no crate is directly affected
C2_DeletedFileIsMissed ==
    /\ last.op = "analyze_git_changes"
    /\ last.ret.ok
    /\ DOMAIN crates = {"a"}
    /\ last.arg.changed_files.changes =
          <<[path |-> <<"a", "src", "lib.rs">>, change_type |-> "Deleted"]>>
    /\ last.ret.directly_affected_crates = <<>>

----------------------------------------------------------------------------
(* C4, C5, C9: the statuses of the version-bump analysis *)

\* the call in progress is a version-bump analysis
BumpsAnalysed == last.op = "analyze_version_bumps"

NoVersionBumpIssues(status) ==
    {i \in DOMAIN status.issues : status.issues[i].issue_type = "NoVersionBump"}

\* C4: when the manifest of a crate cannot be read at the base ref because it
\* is not there, the status of the crate has is_bumped = true whatever its
\* current version is, the crate is not listed as needing a bump, and its
\* status carries no NoVersionBump issue.
C4_NewCrateCountsAsBumped ==
    BumpsAnalysed =>
        \A id \in DOMAIN last.ret.crate_versions :
            last.arg.base_reads[id].kind = "not_found" =>
                /\ last.ret.crate_versions[id].is_bumped
                /\ id \notin Range(last.ret.crates_needing_bump)
                /\ NoVersionBumpIssues(last.ret.crate_versions[id]) = {}

\* a is at 0.2.0 and has no manifest at the base ref; it is the only affected
\* crate, is reported as not bumped and gets an Error
C4_NewCrateNeedsBump ==
    /\ BumpsAnalysed
    /\ last.arg.affected_crates = <<"a">>
    /\ last.arg.directly_changed = <<"a">>
    /\ last.arg.direct_severity = default_direct
    /\ "a" \in DOMAIN crates
    /\ crates["a"].version = v0_2_0
    /\ last.arg.base_reads["a"].kind = "not_found"
    /\ ~last.ret.crate_versions["a"].is_bumped
    /\ last.ret.crates_needing_bump = <<"a">>
    /\ last.ret.total_errors = 1

\* semantic-version precedence: major, then minor, then patch, then the
\* pre-release, a pre-release being lower than the release; build metadata
\* takes no part
PrecedenceGreater(current, base) ==
    then(cmp_number(current.major, base.major),
    then(cmp_number(current.minor, base.minor),
    then(cmp_number(current.patch, base.patch),
         Prerelease_cmp(current.pre, base.pre)))) = "Greater"

\* C5: is_bumped is true if and only if the current version is strictly
\* greater than the base version under semantic-version precedence; equal
\* versions are not bumped.
C5_BumpedIffGreaterByPrecedence ==
    BumpsAnalysed =>
        \A id \in DOMAIN last.ret.crate_versions :
            LET status == last.ret.crate_versions[id]
            IN  status.is_bumped <=>
                    PrecedenceGreater(status.current_version, status.base_version)

\* a went from 0.1.0+1 to 0.1.0+2, which differ in build metadata only, and
\* is reported as bumped
C5_BuildMetadataCountsAsBump ==
    /\ BumpsAnalysed
    /\ last.arg.affected_crates = <<"a">>
    /\ "a" \in DOMAIN crates
    /\ crates["a"].version = v0_1_0_build2
    /\ last.arg.base_reads["a"] = [kind |-> "version", text |-> v0_1_0_build1]
    /\ last.ret.crate_versions["a"].is_bumped
    /\ last.ret.crates_bumped = <<"a">>

\* C9: the status of a crate that is not bumped carries exactly one issue, a
\* NoVersionBump, and the status of a bumped crate carries none; the severity
\* of the issue is what the direct config gives for NoVersionBump when the
\* crate is in the directly-changed list, and what the transitive config
\* gives otherwise.
C9_OneNoVersionBumpIssue ==
    BumpsAnalysed =>
        \A id \in DOMAIN last.ret.crate_versions :
            LET status == last.ret.crate_versions[id]
                expected == IF id \in Range(last.arg.directly_changed)
                               THEN last.arg.direct_severity.no_version_bump
                               ELSE last.arg.transitive_severity.no_version_bump
            IN  IF status.is_bumped
                   THEN status.issues = <<>>
                   ELSE /\ Len(status.issues) = 1
                        /\ status.issues[1].issue_type = "NoVersionBump"
                        /\ status.issues[1].severity = expected

\* a and b are both affected and not bumped, only a is directly changed: a
\* gets the direct severity, b the transitive one, and they differ
C9_Witness ==
    /\ BumpsAnalysed
    /\ last.arg.affected_crates = <<"a", "b">>
    /\ last.arg.directly_changed = <<"a">>
    /\ DOMAIN last.ret.crate_versions = {"a", "b"}
    /\ ~last.ret.crate_versions["a"].is_bumped
    /\ ~last.ret.crate_versions["b"].is_bumped
    /\ last.ret.crate_versions["a"].issues[1].severity = "Error"
    /\ last.ret.crate_versions["b"].issues[1].severity = "Warning"

----------------------------------------------------------------------------
(* C10: the outcome of check-versions *)

\* the call in progress is a run of check-versions
CheckRun == last.op = "handle_check_versions"

\* the run got as far as the analyses: the graph was built, the diff was
\* obtained and it reports a change
CheckAnalysed == CheckRun /\ "version_analysis" \in DOMAIN last.ret

RECURSIVE SumOver(_, _)

\* the sum of f over the set S
SumOver(S, f) ==
    IF S = {} THEN 0
    ELSE LET x == CHOOSE y \in S : TRUE
         IN  f[x] + SumOver(S \ {x}, f)

\* how many issues of the statuses have the severity
IssuesOfSeverity(statuses, severity) ==
    SumOver(DOMAIN statuses,
        [id \in DOMAIN statuses |->
            Cardinality({i \in DOMAIN statuses[id].issues :
                            statuses[id].issues[i].severity = severity})])

\* the issues of the severity among the version-bump statuses and, unless the
\* changelogs are skipped, the changelog statuses of the run; a run that
\* stopped before its analyses has no status
IssuesOfRun(severity) ==
    IF ~CheckAnalysed THEN 0
    ELSE IssuesOfSeverity(last.ret.version_analysis.crate_versions, severity)
         + (IF last.ret.changelog_analysis.some
               THEN IssuesOfSeverity(last.ret.changelog_analysis.value.statuses,
                                     severity)
               ELSE 0)

\* C10 as stated: a check run fails if and only if at least one Error issue
\* exists among the version-bump statuses and, unless the changelogs are
\* skipped, the changelog statuses.
C10_FailsIffErrorIssue ==
    CheckRun => (last.ret.outcome = "failed" <=> IssuesOfRun("Error") >= 1)

\* C10, for the runs that get as far as their analyses: the run fails if and
\* only if at least one Error issue exists among the version-bump statuses
\* and, unless the changelogs are skipped, the changelog statuses; the
\* combined error count is the number of these issues; a skipped changelog
\* analysis contributes nothing; Warning issues alone never make it fail.  A
\* run that finds no changed file succeeds.
C10_AnalysedRunFailsIffErrorIssue ==
    /\ CheckAnalysed =>
          /\ last.ret.outcome = "failed" <=> IssuesOfRun("Error") >= 1
          /\ last.ret.total_errors = IssuesOfRun("Error")
          /\ last.arg.command.skip_changelog <=> ~last.ret.changelog_analysis.some
    /\ (CheckRun /\ ~CheckAnalysed /\ last.arg.build_ok /\ last.arg.changed_files.ok)
          => last.ret.outcome = "ok"

\* a run that fails on one Error issue of a changelog status while its
\* version-bump statuses carry none, next to a Warning issue
C10_Witness ==
    /\ CheckAnalysed
    /\ last.ret.outcome = "failed"
    /\ last.ret.version_analysis.total_errors = 0
    /\ last.ret.total_errors = 1
    /\ IssuesOfRun("Warning") >= 1

\* a run with Warning issues only, which succeeds
C10_WarningsOnlyWitness ==
    /\ CheckAnalysed
    /\ last.ret.outcome = "ok"
    /\ IssuesOfRun("Warning") >= 2
    /\ last.ret.changelog_analysis.some

----------------------------------------------------------------------------
(* Notions the changelog properties are stated in *)

\* a changelog that could be read has been parsed
Parsed == last.op = "parse_changelog" /\ last.arg.readable

\* the text without its spaces
without_spaces(text) == SelectSeq(text, LAMBDA ch : ~is_whitespace(ch))

\* the line reads `# CHANGELOG`, whatever the case of its letters and the
\* spaces in it
IsChangelogHeaderLine(line) ==
    to_uppercase(without_spaces(line)) = str_changelog_header_tight

\* the lines with a blank line in the place of every `# CHANGELOG` line
WithoutChangelogHeaderLines(lines) ==
    [i \in DOMAIN lines |->
        IF IsChangelogHeaderLine(lines[i]) THEN ln_blank ELSE lines[i]]

\* the format issues of the document that are about line i
FormatIssuesAt(changelog, i) ==
    {k \in DOMAIN changelog.format_issues :
        changelog.format_issues[k].message.line = i}

----------------------------------------------------------------------------
(* C11 *)

\* C11: a `# CHANGELOG` line in any letter case or spacing, wherever and
\* however often it occurs, sets has_header, records no format issue and is
\* not a version marker: the sections and the format issues of the document
\* are those of the same file with these lines left blank.
C11_HeaderLineOnlySetsHasHeader ==
    (Parsed /\ \E i \in DOMAIN last.arg.lines :
                  IsChangelogHeaderLine(last.arg.lines[i])) =>
        LET changelog == last.ret.changelog
            without == parse_changelog(
                           [readable |-> TRUE,
                            lines |-> WithoutChangelogHeaderLines(last.arg.lines)]
                       ).changelog
        IN  /\ changelog.has_header
            /\ \A i \in DOMAIN last.arg.lines :
                  IsChangelogHeaderLine(last.arg.lines[i])
                     => FormatIssuesAt(changelog, i) = {}
            /\ changelog.versions = without.versions
            /\ changelog.format_issues = without.format_issues

\* `# Changelog` right after the header of 0.1.0 closed that section: the
\* entry that follows is reported as outside of any version section and 0.1.0
\* has no entry
C11_MixedCaseHeaderClosesSection ==
    /\ Parsed
    /\ \E i, j \in DOMAIN last.arg.lines :
          /\ i + 1 < j
          /\ last.arg.lines[i] = ln_version_0_1_0
          /\ last.arg.lines[i + 1] = ln_changelog_mixed_case
          /\ last.arg.lines[j] = ln_star_entry
          /\ \E k \in FormatIssuesAt(last.ret.changelog, j) :
                last.ret.changelog.format_issues[k].message.text
                    = "entry found outside of version section"
          /\ \A v \in DOMAIN last.ret.changelog.versions :
                last.ret.changelog.versions[v].entries = <<>>

----------------------------------------------------------------------------
(* C12 *)

\* the number of `#` the line starts with
RECURSIVE LeadingHashes(_)

LeadingHashes(text) ==
    IF text # <<>> /\ text[1] = "#" THEN 1 + LeadingHashes(Tail(text)) ELSE 0

\* the lines with a blank line in the place of every line that starts with
\* two or more `#`
WithoutSubsectionLines(lines) ==
    [i \in DOMAIN lines |->
        IF LeadingHashes(trim(lines[i])) >= 2 THEN ln_blank ELSE lines[i]]

\* what a one-`#` line declares: its content, taken out of its brackets when
\* it is bracketed, without one leading `v`
DeclaredVersionText(line) ==
    LET content == trim(Tail(trim(line)))
        bare == IF /\ content # <<>>
                   /\ content[1] = "["
                   /\ find(content, "]") > 0
                   THEN SubSeq(content, 2, find(content, "]") - 1)
                   ELSE content
    IN  IF bare # <<>> /\ bare[1] = "v" THEN Tail(bare) ELSE bare

\* line i of the parsed file is a one-`#` line that declares a semantic
\* version
DeclaresVersion(i) ==
    /\ LeadingHashes(trim(last.arg.lines[i])) = 1
    /\ Version_parse(DeclaredVersionText(last.arg.lines[i])).ok

\* C12: only a line with exactly one `#` is a version header.  The lines that
\* start with two or more `#` open and close no section and record no format
\* issue (the document is that of the file with these lines left blank), and
\* a one-`#` line whose bare or bracketed content, without a leading `v`, is
\* a version gives a section of that version and no format issue.
C12_OnlyOneHashIsVersionHeader ==
    Parsed =>
        LET changelog == last.ret.changelog
            without == parse_changelog(
                           [readable |-> TRUE,
                            lines |-> WithoutSubsectionLines(last.arg.lines)]
                       ).changelog
        IN  /\ changelog = without
            /\ \A i \in DOMAIN last.arg.lines :
                  DeclaresVersion(i) =>
                     /\ Version_parse(DeclaredVersionText(last.arg.lines[i])).version
                           \in DOMAIN changelog.versions
                     /\ FormatIssuesAt(changelog, i) = {}

\* `## 0.2.0` opened the section of 0.2.0, and `# [0.1.0]` is reported as a
\* version that could not be parsed and gave no section
C12_TwoHashesOpenBracketsFail ==
    /\ Parsed
    /\ \E i, j \in DOMAIN last.arg.lines :
          /\ last.arg.lines[i] = ln_two_hashes_version
          /\ \E v \in DOMAIN last.ret.changelog.versions :
                /\ v.minor = 2
                /\ last.ret.changelog.versions[v].line_number = i
          /\ last.arg.lines[j] = ln_version_bracketed
          /\ \E k \in FormatIssuesAt(last.ret.changelog, j) :
                last.ret.changelog.format_issues[k].message.text
                    = "could not parse version"
          /\ \A v \in DOMAIN last.ret.changelog.versions : v.minor # 1

----------------------------------------------------------------------------
(* C13 *)

\* the parser has a version section open when it comes to line i
SectionOpenAt(i) ==
    parse_lines([changelog |-> Changelog_new, current_version |-> [some |-> FALSE]],
                SubSeq(last.arg.lines, 1, i - 1), 1).current_version.some

\* line i is written as an entry: it starts with `*` or with `-`
IsEntryLine(i) ==
    LET trimmed == trim(last.arg.lines[i])
    IN  trimmed # <<>> /\ trimmed[1] \in {"*", "-"}

\* the entries of the parsed document that come from line i
EntriesFrom(changelog, i) ==
    {<<v, k>> \in UNION {{<<w, n>> : n \in DOMAIN changelog.versions[w].entries} :
                            w \in DOMAIN changelog.versions} :
        changelog.versions[v].entries[k].line_number = i}

\* C13: every entry line, `*` or `-`, met while no version section is open
\* adds one format issue to the document and no entry to any section.
C13_EntryOutsideSectionIsFormatIssue ==
    Parsed =>
        \A i \in DOMAIN last.arg.lines :
            (IsEntryLine(i) /\ ~SectionOpenAt(i)) =>
                /\ Cardinality(FormatIssuesAt(last.ret.changelog, i)) = 1
                /\ EntriesFrom(last.ret.changelog, i) = {}

\* a `-` entry met before any version header left no trace: no format issue
\* about its line, no entry
C13_DashEntryOutsideIsSilent ==
    /\ Parsed
    /\ \E i \in DOMAIN last.arg.lines :
          /\ last.arg.lines[i] = ln_dash_entry
          /\ ~SectionOpenAt(i)
          /\ FormatIssuesAt(last.ret.changelog, i) = {}
          /\ EntriesFrom(last.ret.changelog, i) = {}

----------------------------------------------------------------------------
(* C14 *)

\* the state of the parser after the first n lines of `lines`
ParserAfter(lines, n) ==
    parse_lines([changelog |-> Changelog_new, current_version |-> [some |-> FALSE]],
                SubSeq(lines, 1, n), 1)

\* line i is a `-` line whose text is a well-formed entry
IsWellFormedDashEntry(i) ==
    LET trimmed == trim(last.arg.lines[i])
    IN  /\ trimmed # <<>>
        /\ trimmed[1] = "-"
        /\ parse_entry(trim(Tail(trimmed)), i).ok

\* the lines with `*` in the place of the `-` of line i
WithStarAt(lines, i) ==
    [n \in DOMAIN lines |->
        IF n = i THEN <<"*">> \o Tail(trim(lines[n])) ELSE lines[n]]

\* C14: a well-formed `-` entry under an open version section is added to
\* that section as the same line written with `*` would be, and the document
\* carries a note about that line that says `*` is preferred.
C14_DashEntryAddedWithNote ==
    Parsed =>
        \A i \in DOMAIN last.arg.lines :
            (IsWellFormedDashEntry(i) /\ SectionOpenAt(i)) =>
                /\ ParserAfter(last.arg.lines, i).current_version
                      = ParserAfter(WithStarAt(last.arg.lines, i), i).current_version
                /\ Len(ParserAfter(last.arg.lines, i).current_version.value.entries)
                      = Len(ParserAfter(last.arg.lines, i - 1)
                               .current_version.value.entries) + 1
                /\ \E k \in FormatIssuesAt(last.ret.changelog, i) :
                      last.ret.changelog.format_issues[k].message.note

\* a well-formed `-` entry under the header of 0.1.0 is in the section and
\* the document says nothing about its line
C14_DashEntryWithoutNote ==
    /\ Parsed
    /\ \E i \in DOMAIN last.arg.lines :
          /\ last.arg.lines[i] = ln_dash_entry
          /\ SectionOpenAt(i)
          /\ EntriesFrom(last.ret.changelog, i) # {}
          /\ FormatIssuesAt(last.ret.changelog, i) = {}

----------------------------------------------------------------------------
(* C15 *)

\* what line i gives as the text of a version, if the parser takes it for a
\* version header
HeaderText(lines, i) ==
    LET trimmed == trim(lines[i])
    IN  IF /\ trimmed # <<>>
           /\ trimmed[1] = "#"
           /\ trimmed \notin {str_changelog_header, str_changelog_header_tight}
           THEN extract_version_from_header(trim(Tail(trimmed)))
           ELSE [some |-> FALSE]

\* line i is taken for a version header
IsHeaderAt(lines, i) == HeaderText(lines, i).some

\* line i is a version header whose version can be parsed
IsVersionAt(lines, i) ==
    IsHeaderAt(lines, i) /\ Version_parse(HeaderText(lines, i).value).ok

\* the version declared by line i
VersionAt(lines, i) == Version_parse(HeaderText(lines, i).value).version

\* the first version header after line i, or the line after the last
NextHeaderAfter(lines, i) ==
    IF \E n \in (i + 1)..Len(lines) : IsHeaderAt(lines, n)
       THEN CHOOSE n \in (i + 1)..Len(lines) :
               /\ IsHeaderAt(lines, n)
               /\ \A m \in (i + 1)..(n - 1) : ~IsHeaderAt(lines, m)
       ELSE Len(lines) + 1

\* the text of the entry of line n, `*` or `-`
EntryText(lines, n) == trim(Tail(trim(lines[n])))

\* line n is a `*` or `-` line with a well-formed entry
IsWellFormedEntryAt(lines, n) ==
    /\ trim(lines[n]) # <<>>
    /\ trim(lines[n])[1] \in {"*", "-"}
    /\ parse_entry(EntryText(lines, n), n).ok

\* the entries written after the header of line i, up to the next header or
\* the end of the file
EntriesUnder(lines, i) ==
    LET numbers == SelectSeq([n \in 1..Len(lines) |-> n],
                       LAMBDA n : /\ i < n
                                  /\ n < NextHeaderAfter(lines, i)
                                  /\ IsWellFormedEntryAt(lines, n))
    IN  [k \in DOMAIN numbers |->
            parse_entry(EntryText(lines, numbers[k]), numbers[k]).entry]

\* the last line that declares version v
LastDeclaration(lines, v) ==
    CHOOSE i \in DOMAIN lines :
        /\ IsVersionAt(lines, i) /\ VersionAt(lines, i) = v
        /\ \A j \in (i + 1)..Len(lines) :
              ~(IsVersionAt(lines, j) /\ VersionAt(lines, j) = v)

----------------------------------------------------------------------------
(* C16 *)

\* the changelog of a crate has been processed and could be parsed
Processed ==
    /\ last.op = "process_changelog"
    /\ last.arg.file.exists
    /\ last.arg.file.readable

\* the document parse_changelog gives for the processed file
ProcessedDocument == parse_changelog(last.arg.file).changelog

\* line i of the processed file is a version header whose text is not a
\* semantic version (and does not read CHANGELOG)
IsUnparsableHeaderAt(i) ==
    /\ IsHeaderAt(last.arg.file.lines, i)
    /\ ~IsVersionAt(last.arg.file.lines, i)
    /\ ~contains(to_uppercase(last.arg.file.lines[i]), str_changelog_word)

\* the BadFormat issues of the status that are about line i
BadFormatIssuesAt(i) ==
    {k \in DOMAIN last.ret.counters.issues :
        /\ last.ret.counters.issues[k].issue_type = "BadFormat"
        /\ last.ret.counters.issues[k].message.line = i}

\* C16: a version header that is not a semantic version does not abort the
\* parse and is a format issue of the document; it is a BadFormat issue of
\* the status of the crate only under enforce_format: without enforce_format
\* there is no BadFormat issue about it, and format_valid stays true when
\* nothing else is wrong with the changelog.
C16_UnparsableHeaderNeedsEnforceFormat ==
    Processed =>
        \A i \in DOMAIN last.arg.file.lines :
            IsUnparsableHeaderAt(i) =>
                /\ parse_changelog(last.arg.file).ok
                /\ FormatIssuesAt(ProcessedDocument, i) # {}
                /\ BadFormatIssuesAt(i) # {} => last.arg.config.enforce_format
                /\ ~last.arg.config.enforce_format =>
                      /\ BadFormatIssuesAt(i) = {}
                      /\ (\A k \in DOMAIN last.ret.counters.issues :
                             last.ret.counters.issues[k].issue_type = "BadFormat"
                                => \E n \in DOMAIN last.arg.file.lines :
                                      /\ IsUnparsableHeaderAt(n)
                                      /\ k \in BadFormatIssuesAt(n))
                            => last.ret.format_valid

\* without enforce_format, the only complaint about the changelog is its
\* unparsable header, and the status has a BadFormat issue about that line
\* and format_valid = false
C16_LenientConfigStillReports ==
    /\ Processed
    /\ ~last.arg.config.enforce_format
    /\ ~last.ret.format_valid
    /\ \E i \in DOMAIN last.arg.file.lines :
          /\ IsUnparsableHeaderAt(i)
          /\ BadFormatIssuesAt(i) # {}
          /\ \A k \in DOMAIN last.ret.counters.issues :
                last.ret.counters.issues[k].issue_type = "BadFormat"
                   => k \in BadFormatIssuesAt(i)

----------------------------------------------------------------------------
(* C17 *)

\* the entries of the processed document: <<version, index>>
ProcessedEntries ==
    UNION {{<<v, k>> : k \in DOMAIN ProcessedDocument.versions[v].entries} :
              v \in DOMAIN ProcessedDocument.versions}

\* validation reported the entry: the status has a BadFormat issue about
\* the line of the entry
IsReported(entry) == BadFormatIssuesAt(entry.line_number) # {}

\* the entry carries a scope that is not empty
HasNonEmptyScope(entry) == entry.scope.some /\ entry.scope.value # <<>>

\* C17: validation reports an entry exactly when its change type is not in a
\* non-empty allowed set, or require_scope is set and the entry has no
\* non-empty scope (empty parentheses count as no scope); with an empty
\* allowed set every change type passes.
C17_EntryReportedIffTypeOrScope ==
    Processed =>
        \A e \in ProcessedEntries :
            LET entry == ProcessedDocument.versions[e[1]].entries[e[2]]
                allowed == last.arg.config.allowed_change_types
            IN  IsReported(entry)
                <=> \/ /\ allowed # <<>>
                       /\ entry.change_type \notin Range(allowed)
                    \/ /\ last.arg.config.require_scope
                       /\ ~HasNonEmptyScope(entry)

\* require_scope is set, the entry `feat(): x` has an empty scope, and
\* validation did not report it
C17_EmptyScopePasses ==
    /\ Processed
    /\ last.arg.config.require_scope
    /\ \E e \in ProcessedEntries :
          LET entry == ProcessedDocument.versions[e[1]].entries[e[2]]
          IN  /\ entry.scope = [some |-> TRUE, value |-> <<>>]
              /\ is_allowed_change_type(last.arg.config, entry.change_type)
              /\ ~IsReported(entry)

----------------------------------------------------------------------------
(* C20 *)

\* the two versions are the same semantic version, field by field
SameVersion(v, w) ==
    /\ v.major = w.major /\ v.minor = w.minor /\ v.patch = w.patch
    /\ v.pre = w.pre /\ v.build = w.build

\* the MissingVersionEntry issues of the status
MissingVersionEntryIssues ==
    {k \in DOMAIN last.ret.counters.issues :
        last.ret.counters.issues[k].issue_type = "MissingVersionEntry"}

\* C20: for a crate whose changelog was parsed, current_version_has_entry is
\* true exactly when the document has a section of exactly the current
\* version (a section that differs in its pre-release does not count), and a
\* MissingVersionEntry issue is raised exactly when it is false and
\* require_changelog is set.
C20_CurrentVersionEntryIsExact ==
    Processed =>
        /\ last.ret.current_version_has_entry
              <=> \E i \in DOMAIN last.arg.file.lines :
                     /\ IsVersionAt(last.arg.file.lines, i)
                     /\ SameVersion(VersionAt(last.arg.file.lines, i),
                                    last.arg.current_version)
        /\ MissingVersionEntryIssues # {}
              <=> /\ ~last.ret.current_version_has_entry
                  /\ last.arg.config.require_changelog
        /\ Cardinality(MissingVersionEntryIssues) <= 1

\* the crate is at 0.1.0, its changelog has a section for 0.1.0-alpha and
\* none for 0.1.0: current_version_has_entry is false and the status has a
\* MissingVersionEntry issue
C20_Witness ==
    /\ Processed
    /\ last.arg.current_version = Version_parse(v0_1_0).version
    /\ Version_parse(v0_1_0_alpha).version \in DOMAIN ProcessedDocument.versions
    /\ ~last.ret.current_version_has_entry
    /\ MissingVersionEntryIssues # {}

----------------------------------------------------------------------------
(* C18 *)

\* the changelogs of the changed crates have been analysed
AnalysedForChanges == last.op = "analyze_for_changes"

\* the path of the changelog of a crate, relative to the repository
ChangelogPathOf(id) == CrateDirs[id] \o <<"CHANGELOG.md">>

\* the crate is one of the directly affected crates of the impact analysis
IsDirectlyChanged(id) ==
    id \in Range(last.arg.impact_analysis.directly_affected_crates)

\* the issues of the given type in the status of the crate
IssuesOfType(id, issue_type) ==
    {k \in DOMAIN last.ret.statuses[id].issues :
        last.ret.statuses[id].issues[k].issue_type = issue_type}

\* C18: with check_changelog_updated, every analysed crate has
\* changelog_was_updated exactly when the repo-relative path of its changelog
\* is among the changed files, and a ChangelogNotUpdated issue exactly when
\* it is directly changed and changelog_was_updated is false; a crate that is
\* only transitively affected never has one.
C18_UpdatedIffChangelogChanged ==
    (AnalysedForChanges /\ last.arg.config.check_changelog_updated) =>
        \A id \in DOMAIN last.ret.statuses :
            /\ last.ret.statuses[id].changelog_was_updated
                  <=> ChangelogPathOf(id)
                         \in Range(last.arg.impact_analysis.changed_files)
            /\ IssuesOfType(id, "ChangelogNotUpdated") # {}
                  <=> /\ IsDirectlyChanged(id)
                      /\ ~last.ret.statuses[id].changelog_was_updated
            /\ ~IsDirectlyChanged(id) => IssuesOfType(id, "ChangelogNotUpdated") = {}

\* crate a is directly changed, the diff reports its changelog among the
\* changed files and the file is not in the working tree: its status has
\* changelog_was_updated = false and no ChangelogNotUpdated issue
C18_MissingChangelogIsNeverChecked ==
    /\ AnalysedForChanges
    /\ last.arg.config.check_changelog_updated
    /\ "a" \in DOMAIN last.ret.statuses
    /\ IsDirectlyChanged("a")
    /\ ~last.arg.files["a"].exists
    /\ ChangelogPathOf("a") \in Range(last.arg.impact_analysis.changed_files)
    /\ ~last.ret.statuses["a"].changelog_was_updated
    /\ IssuesOfType("a", "ChangelogNotUpdated") = {}

----------------------------------------------------------------------------
(* C19 *)

\* the crates of the graph the analysis comes to that have no changelog file
AnalysedWithoutChangelog ==
    {id \in Range(last.arg.keys) \cap DOMAIN crates : ~last.arg.files[id].exists}

\* the crate is only transitively affected and the configuration lets its
\* changelog be missing
IsExcused(id) ==
    ~IsDirectlyChanged(id) /\ last.arg.config.allow_missing_for_transitive

\* the crate is in none of the lists of the analysis
InNoList(id) ==
    /\ id \notin Range(last.ret.crates_with_valid_changelog)
    /\ id \notin Range(last.ret.crates_missing_changelog)
    /\ id \notin Range(last.ret.crates_needing_changelog_update)

\* C19: a crate without a changelog file that is only transitively affected
\* is left out of the result when allow_missing_for_transitive is set, also
\* under require_changelog: no status, no issue, and counters and lists as if
\* the crate had not been analysed.  Every other crate without a changelog
\* file gets a status with has_changelog = false that carries exactly one
\* MissingChangelog issue under require_changelog and no issue without it.
C19_MissingChangelogSkippedOrReported ==
    AnalysedForChanges =>
        /\ \A id \in AnalysedWithoutChangelog :
              IF IsExcused(id)
                 THEN id \notin DOMAIN last.ret.statuses /\ InNoList(id)
                 ELSE /\ id \in DOMAIN last.ret.statuses
                      /\ ~last.ret.statuses[id].has_changelog
                      /\ IF last.arg.config.require_changelog
                            THEN /\ Len(last.ret.statuses[id].issues) = 1
                                 /\ last.ret.statuses[id].issues[1].issue_type
                                       = "MissingChangelog"
                            ELSE last.ret.statuses[id].issues = <<>>
        /\ last.ret
              = analyze_for_changes(
                    SelectSeq(last.arg.keys, LAMBDA id :
                        ~(id \in AnalysedWithoutChangelog /\ IsExcused(id))),
                    RepoPath, last.arg.config, default_direct, default_transitive,
                    last.arg.impact_analysis,
                    reads_of(last.arg.files, last.arg.config))

\* under require_changelog and allow_missing_for_transitive neither a nor b
\* has a changelog; b is only transitively affected and left out, a is
\* directly changed and has its one MissingChangelog issue
C19_Witness ==
    /\ AnalysedForChanges
    /\ last.arg.config.require_changelog
    /\ last.arg.config.allow_missing_for_transitive
    /\ AnalysedWithoutChangelog = {"a", "b"}
    /\ IsDirectlyChanged("a")
    /\ ~IsDirectlyChanged("b")
    /\ DOMAIN last.ret.statuses = {"a"}
    /\ last.ret.total_issues = 1

----------------------------------------------------------------------------
(* C21: impact analysis on the same graph and the same changed files *)

\* the call in progress is an impact analysis that obtained its diff
ImpactAnalysed == last.op = "analyze_git_changes" /\ last.ret.ok

\* what the impact analysis of the same graph, the same diff and the same
\* working tree returns when the HashMap of the crates is iterated in the
\* order `values`
ImpactAnalysedAgain(values) ==
    analyze_git_changes(last.arg.changed_files, last.arg.disk, values)

\* the crates whose scanned file sets hold the file
ScannedBy(file) ==
    {id \in DOMAIN crates : file \in scan_crate_files(crates[id].path, last.arg.disk)}

\* C21: impact analysis is deterministic: on the same graph and the same
\* changed-file list it gives the same directly_affected, all_affected and
\* needs_rebuild lists, in the same order, and the same file-to-crate map; in
\* particular the owner recorded for a file that two crates scan does not
\* depend on the order in which the crates are enumerated.
C21_ImpactAnalysisIsDeterministic ==
    ImpactAnalysed =>
        \A values \in Listings(DOMAIN crates) :
            LET again == ImpactAnalysedAgain(values)
            IN  /\ again.directly_affected_crates = last.ret.directly_affected_crates
                /\ again.all_affected_crates = last.ret.all_affected_crates
                /\ again.needs_rebuild = last.ret.needs_rebuild
                /\ again.file_to_crate_mapping = last.ret.file_to_crate_mapping

\* b lies in the source directory of a and its lib.rs, which both crates
\* scan, is the one changed file: this analysis names a as its owner and as
\* the directly affected crate, and the analysis that enumerates the crates
\* the other way round names b
C21_SharedFileOwnerFollowsEnumeration ==
    /\ ImpactAnalysed
    /\ DOMAIN crates = {"a", "b"}
    /\ Len(last.arg.changed_files.changes) = 1
    /\ LET file == join(RepoPath, last.arg.changed_files.changes[1].path)
       IN  /\ ScannedBy(file) = {"a", "b"}
           /\ last.ret.file_to_crate_mapping[file] = "a"
           /\ last.ret.directly_affected_crates = <<"a">>
           /\ ImpactAnalysedAgain(<<"a", "b">>).file_to_crate_mapping[file] = "b"
           /\ ImpactAnalysedAgain(<<"a", "b">>).directly_affected_crates = <<"b">>

----------------------------------------------------------------------------
(* C22: the directly affected crates *)

\* the changed files of the analysis in progress, as absolute paths
ChangedPaths ==
    [i \in DOMAIN last.arg.changed_files.changes |->
        join(RepoPath, last.arg.changed_files.changes[i].path)]

\* the positions of the changed files that the ownership map gives to id
ChangedFilesOwnedBy(id) ==
    {i \in DOMAIN ChangedPaths :
        /\ ChangedPaths[i] \in DOMAIN last.ret.file_to_crate_mapping
        /\ last.ret.file_to_crate_mapping[ChangedPaths[i]] = id}

\* the least element of a non-empty set of numbers
Least(S) == CHOOSE x \in S : \A y \in S : x <= y

\* C22: directly_affected holds no crate twice, holds exactly the crates that
\* own at least one changed file, each with a changed file under its root,
\* and lists them in the order in which their first changed file appears in
\* the changed-file list; a changed file that no crate owns adds nothing and
\* is not an error.
C22_DirectlyAffectedAreOwnersInFileOrder ==
    (last.op = "analyze_git_changes" /\ last.arg.changed_files.ok) =>
        LET direct == last.ret.directly_affected_crates IN
        /\ last.ret.ok
        /\ NoDuplicates(direct)
        /\ Range(direct) = {id \in DOMAIN crates : ChangedFilesOwnedBy(id) # {}}
        /\ \A id \in Range(direct) :
              \E i \in ChangedFilesOwnedBy(id) : UnderSourceRoots(ChangedPaths[i], id)
        /\ \A p, q \in DOMAIN direct :
              p < q => Least(ChangedFilesOwnedBy(direct[p]))
                          < Least(ChangedFilesOwnedBy(direct[q]))

\* four changed files: c/README.md, which no crate owns, then a file of c
\* and two files of a; the directly affected crates are c, then a
C22_Witness ==
    /\ last.op = "analyze_git_changes"
    /\ last.arg.changed_files.ok
    /\ DOMAIN crates = {"a", "b", "c"}
    /\ Len(ChangedPaths) = 4
    /\ ChangedPaths[1] \notin DOMAIN last.ret.file_to_crate_mapping
    /\ ChangedFilesOwnedBy("c") = {2}
    /\ ChangedFilesOwnedBy("a") = {3, 4}
    /\ last.ret.directly_affected_crates = <<"c", "a">>

----------------------------------------------------------------------------
(* C23: add_dependency *)

\* add_dependency has been called
DependencyAdded == last.op = "add_dependency"

\* the edges of the graph g that go from the crate `from` to the crate `to`
\* with the kind dep_type, by their positions
EdgesOf(g, from, to, dep_type) ==
    {i \in DOMAIN g.graph_edges :
        /\ g.graph_nodes[g.graph_edges[i].source] = from
        /\ g.graph_nodes[g.graph_edges[i].target] = to
        /\ g.graph_edges[i].weight = dep_type}

\* C23: add_dependency(from, to, kind) adds exactly one edge from -> to with
\* the kind when both crates are known, whatever edges the pair already has:
\* the edges that were there are kept, each as its own edge, and
\* dependency_count grows by one; when either crate is unknown the graph is
\* left as it was; no error is reported in either case.
C23_AddDependencyAddsOneEdgeOrNothing ==
    DependencyAdded =>
        LET before == last.before
            from == last.arg.from
            to == last.arg.to
        IN  /\ last.ret = "unit"
            /\ crates = before.crates
            /\ graph_nodes = before.graph_nodes
            /\ node_indices = before.node_indices
            /\ IF from \in DOMAIN before.crates /\ to \in DOMAIN before.crates
                  THEN /\ Len(graph_edges) = Len(before.graph_edges) + 1
                       /\ SubSeq(graph_edges, 1, Len(before.graph_edges))
                             = before.graph_edges
                       /\ \A p, q \in CrateIds, dep_type \in DependencyType :
                             Cardinality(EdgesOf(graph_state, p, q, dep_type))
                                = Cardinality(EdgesOf(before, p, q, dep_type))
                                  + (IF <<p, q, dep_type>>
                                          = <<from, to, last.arg.dep_type>>
                                        THEN 1 ELSE 0)
                       /\ get_statistics.dependency_count
                             = Len(before.graph_edges) + 1
                  ELSE graph_edges = before.graph_edges

\* a already depended on b by a Normal and by a Dev edge; another Normal
\* edge a -> b was added and the graph has the three of them
C23_Witness ==
    /\ DependencyAdded
    /\ last.arg = [from |-> "a", to |-> "b", dep_type |-> "Normal"]
    /\ Cardinality(EdgesOf(last.before, "a", "b", "Normal")) = 1
    /\ Cardinality(EdgesOf(last.before, "a", "b", "Dev")) = 1
    /\ Cardinality(EdgesOf(graph_state, "a", "b", "Normal")) = 2
    /\ get_statistics.dependency_count = 3

\* the crate c, which the graph does not know, was named as the target, and
\* the graph is as it was
C23_UnknownEndpointWitness ==
    /\ DependencyAdded
    /\ last.arg.from = "a"
    /\ last.arg.to = "c"
    /\ "a" \in DOMAIN crates
    /\ "c" \notin DOMAIN crates
    /\ graph_state = last.before
    /\ Len(graph_edges) = 1

----------------------------------------------------------------------------
(* C24: every known affected crate gets a status *)

\* the crates of the affected list that the graph knows
KnownAffected == Range(last.arg.affected_crates) \cap DOMAIN crates

\* C24: version-bump analysis produces a status for every crate of the
\* affected list that the graph knows, so that bump_percentage() is
\* 100 * (bumped crates) / (affected crates); no affected crate is dropped
\* from the result without a status or an issue.
C24_EveryKnownAffectedCrateHasStatus ==
    BumpsAnalysed =>
        /\ \A id \in KnownAffected : id \in DOMAIN last.ret.crate_versions
        /\ KnownAffected # {} =>
              bump_percentage(last.ret) =
                  percent_of(Cardinality({id \in KnownAffected :
                                 /\ id \in DOMAIN last.ret.crate_versions
                                 /\ last.ret.crate_versions[id].is_bumped}),
                             Cardinality(KnownAffected))

\* a is known, its manifest carries the version 0.1, and it is the one
\* affected crate: the result has no status, no issue and no count for it,
\* and reports that everything is bumped, at 100 percent
C24_UnparsableVersionIsDropped ==
    /\ BumpsAnalysed
    /\ last.arg.affected_crates = <<"a">>
    /\ "a" \in DOMAIN crates
    /\ crates["a"].version = v0_1
    /\ last.ret.crate_versions = <<>>
    /\ last.ret.crates_needing_bump = <<>>
    /\ last.ret.crates_bumped = <<>>
    /\ last.ret.total_errors = 0
    /\ last.ret.total_warnings = 0
    /\ all_bumped(last.ret)
    /\ bump_percentage(last.ret) = percent_100

----------------------------------------------------------------------------
(* C25: the analyses of an empty affected set *)

\* the run got to its analyses and the impact analysis found no affected
\* crate
NothingAffected ==
    CheckAnalysed /\ last.ret.impact_analysis.all_affected_crates = <<>>

\* the for-changes changelog analysis was run
AnalysedChangelogsForChanges ==
    /\ CheckAnalysed
    /\ last.ret.changelog_analysis.some
    /\ ~last.arg.command.all_crates

\* C25: with an empty affected set, version-bump analysis has no status,
\* bump_percentage() is 100 and all_bumped() is true, and for-changes
\* changelog analysis has no status, all_valid() is true and
\* compliance_percentage() is 100; neither reports an error or a warning.
C25_EmptyAffectedSetIsClean ==
    NothingAffected =>
        /\ LET version_analysis == last.ret.version_analysis
           IN  /\ version_analysis.crate_versions = <<>>
               /\ bump_percentage(version_analysis) = percent_100
               /\ all_bumped(version_analysis)
               /\ version_analysis.total_errors = 0
               /\ version_analysis.total_warnings = 0
        /\ AnalysedChangelogsForChanges =>
              LET changelog_analysis == last.ret.changelog_analysis.value
              IN  /\ changelog_analysis.statuses = <<>>
                  /\ all_valid(changelog_analysis)
                  /\ compliance_percentage(changelog_analysis) = percent_100
                  /\ changelog_analysis.total_issues = 0
                  /\ changelog_analysis.total_errors = 0
                  /\ changelog_analysis.total_warnings = 0

\* the diff reports nothing but the changelog of a, which no crate owns,
\* and both analyses were run with nothing affected
C25_Witness ==
    /\ NothingAffected
    /\ AnalysedChangelogsForChanges
    /\ "a" \in DOMAIN crates
    /\ Len(last.arg.changed_files.changes) = 1
    /\ last.arg.changed_files.changes[1].path = <<"a", "CHANGELOG.md">>
    /\ last.ret.outcome = "ok"

----------------------------------------------------------------------------
(* C26: the three lists of a changelog analysis *)

\* a changelog analysis, for changes or for all crates, was run
ChangelogsAnalysed == CheckAnalysed /\ last.ret.changelog_analysis.some

\* how often the list holds the crate
Occurrences(list, id) == Cardinality({i \in DOMAIN list : list[i] = id})

\* how often the named list of the analysis holds the crate
OccurrencesIn(analysis, name, id) == Occurrences(analysis[name], id)

ChangelogLists ==
    {"crates_with_valid_changelog", "crates_missing_changelog",
     "crates_needing_changelog_update"}

\* C26: in every changelog analysis, for changes and for all crates, the
\* lists crates_with_valid_changelog, crates_missing_changelog and
\* crates_needing_changelog_update partition the analysed crates: every
\* crate with a status is in exactly one of them, the one add_status would
\* push it to; so all_valid() is true exactly when every analysed crate has
\* a changelog with valid format and an entry for its current version.
C26_ListsPartitionTheStatuses ==
    ChangelogsAnalysed =>
        LET analysis == last.ret.changelog_analysis.value
        IN  /\ \A id \in DOMAIN analysis.statuses :
                  \A name \in ChangelogLists :
                      OccurrencesIn(analysis, name, id) =
                          IF name = add_status_list(analysis.statuses[id])
                             THEN 1 ELSE 0
            /\ all_valid(analysis) <=>
                  \A id \in DOMAIN analysis.statuses :
                      /\ analysis.statuses[id].has_changelog
                      /\ analysis.statuses[id].format_valid
                      /\ analysis.statuses[id].current_version_has_entry

\* the changelog of a has an entry for the current version and an invalid
\* line: a has a status with format_valid = false, is in none of the three
\* lists, and all_valid() is true
C26_InvalidFormatIsInNoList ==
    /\ ChangelogsAnalysed
    /\ LET analysis == last.ret.changelog_analysis.value
       IN  /\ "a" \in DOMAIN analysis.statuses
           /\ analysis.statuses["a"].has_changelog
           /\ ~analysis.statuses["a"].format_valid
           /\ analysis.statuses["a"].current_version_has_entry
           /\ \A name \in ChangelogLists : OccurrencesIn(analysis, name, "a") = 0
           /\ all_valid(analysis)
           /\ analysis.total_errors >= 1

----------------------------------------------------------------------------
(* C27: the lists and the counters of the version-bump analysis *)

\* the percentage is at most 100
AtMost100(percentage) == percentage.num <= 100 * percentage.den

\* C27: for every affected list, also one that names a crate more than
\* once, crates_bumped and crates_needing_bump partition the keys of
\* crate_versions, each key being in exactly one of the two lists, exactly
\* once; total_errors and total_warnings are the numbers of Error and of
\* Warning issues in the statuses of crate_versions; and bump_percentage()
\* is at most 100.
C27_BumpListsPartitionTheStatuses ==
    BumpsAnalysed =>
        /\ Range(last.ret.crates_bumped) \cup Range(last.ret.crates_needing_bump)
              \subseteq DOMAIN last.ret.crate_versions
        /\ \A id \in DOMAIN last.ret.crate_versions :
              Occurrences(last.ret.crates_bumped, id)
                 + Occurrences(last.ret.crates_needing_bump, id) = 1
        /\ last.ret.total_errors
              = IssuesOfSeverity(last.ret.crate_versions, "Error")
        /\ last.ret.total_warnings
              = IssuesOfSeverity(last.ret.crate_versions, "Warning")
        /\ AtMost100(bump_percentage(last.ret))

\* the affected list names a twice and a is bumped: a has one status, is
\* listed twice as bumped, and bump_percentage() is 200
C27_RepeatedCrateIsCountedTwice ==
    /\ BumpsAnalysed
    /\ last.arg.affected_crates = <<"a", "a">>
    /\ DOMAIN last.ret.crate_versions = {"a"}
    /\ last.ret.crate_versions["a"].is_bumped
    /\ last.ret.crates_bumped = <<"a", "a">>
    /\ bump_percentage(last.ret) = [num |-> 200, den |-> 1]

\* the affected list names a twice and a is not bumped: the one status of a
\* carries one Error issue, and total_errors is 2
C27_RepeatedCrateIsReportedTwice ==
    /\ BumpsAnalysed
    /\ last.arg.affected_crates = <<"a", "a">>
    /\ DOMAIN last.ret.crate_versions = {"a"}
    /\ last.ret.crates_needing_bump = <<"a", "a">>
    /\ IssuesOfSeverity(last.ret.crate_versions, "Error") = 1
    /\ last.ret.total_errors = 2

----------------------------------------------------------------------------
(* C28: records, index and nodes of the graph *)

\* the record map, the index and the node set hold the same CrateIds, each
\* with one node, and every edge joins two nodes
GraphIsConsistent ==
    /\ DOMAIN crates = DOMAIN node_indices
    /\ DOMAIN node_indices = Range(graph_nodes)
    /\ NoDuplicates(graph_nodes)
    /\ \A id \in DOMAIN node_indices :
          /\ node_indices[id] \in DOMAIN graph_nodes
          /\ graph_nodes[node_indices[id]] = id
    /\ \A id \in DOMAIN crates : crates[id].id = id
    /\ \A i \in DOMAIN graph_edges :
          /\ graph_edges[i].source \in DOMAIN graph_nodes
          /\ graph_edges[i].target \in DOMAIN graph_nodes

\* C28: after any sequence of add_crate, add_dependency and
\* rebuild_dependencies calls, whether rebuild_dependencies succeeds or
\* fails, the record map, the index and the node set hold the same
\* CrateIds, each CrateId has exactly one node and every edge joins two of
\* these nodes; adding a crate whose CrateId is already there replaces its
\* record and nothing else, and leaves nodes and edges as they were.
C28_RecordsIndexAndNodesAgree ==
    /\ GraphIsConsistent
    /\ last.op = "rebuild_dependencies" =>
          /\ crates = last.before.crates
          /\ graph_nodes = last.before.graph_nodes
          /\ node_indices = last.before.node_indices
    /\ (last.op = "add_crate" /\ last.arg.id \in DOMAIN last.before.crates) =>
          /\ graph_nodes = last.before.graph_nodes
          /\ node_indices = last.before.node_indices
          /\ graph_edges = last.before.graph_edges
          /\ DOMAIN crates = DOMAIN last.before.crates
          /\ crates[last.arg.id] = last.arg
          /\ \A id \in DOMAIN crates \ {last.arg.id} :
                crates[id] = last.before.crates[id]

\* a, which was at 0.1.0 and has an edge to b, was added again at 0.2.0: its
\* record is the new one, and nodes, index and edges are as before
C28_Witness ==
    /\ last.op = "add_crate"
    /\ last.arg.id = "a"
    /\ "a" \in DOMAIN last.before.crates
    /\ last.before.crates["a"].version = v0_1_0
    /\ crates["a"].version = v0_2_0
    /\ "b" \in DOMAIN crates
    /\ graph_edges # <<>>
    /\ graph_nodes = <<"a", "b">>

\* rebuild_dependencies failed at the manifest of the second crate after it
\* had cleared the edges and added those of the first: it returned an error,
\* the edges differ from those before, and crates, index and nodes are kept
C28_FailedRebuildWitness ==
    /\ last.op = "rebuild_dependencies"
    /\ ~last.ret.ok
    /\ Len(last.before.graph_edges) = 2
    /\ Len(graph_edges) = 1
    /\ graph_edges[1] # last.before.graph_edges[1]
    /\ DOMAIN crates = {"a", "b"}

----------------------------------------------------------------------------
(* C29: find_dependency_path *)

\* find_dependency_path is running or has returned
PathSearched == last.op = "find_dependency_path:run"

\* C29: for every graph and every pair of known crates, find_dependency_path
\* terminates: its walk never comes to a crate a second time, as a walk that
\* does goes round for ever; it returns None exactly when `to` is not
\* reached from `from` along dependency edges, and otherwise a list that
\* starts with `from`, ends with `to` and in which every element has a
\* dependency edge to the next.
C29_PathSearchTerminatesWithAPath ==
    (PathSearched /\ last.arg.from \in DOMAIN crates /\ last.arg.to \in DOMAIN crates)
    =>  /\ NoDuplicates(last.path)
        /\ last.rounds < Len(graph_nodes)
        /\ last.done =>
              IF PathBy(last.arg.from, last.arg.to, DependencyType)
                    \/ last.arg.from = last.arg.to
                 THEN /\ last.ret.some
                      /\ last.ret.path # <<>>
                      /\ last.ret.path[1] = last.arg.from
                      /\ last.ret.path[Len(last.ret.path)] = last.arg.to
                      /\ \A i \in 1..(Len(last.ret.path) - 1) :
                            DependsOn(last.ret.path[i], last.ret.path[i + 1])
                 ELSE ~last.ret.some

\* a depends on b and b, by the newer edge, on itself: the search for a path
\* from a to b has gone from b to b more often than the graph has crates,
\* and has not returned
C29_WalkGoesRoundTheSelfLoop ==
    /\ PathSearched
    /\ last.arg = [from |-> "a", to |-> "b"]
    /\ DependsOn("a", "b")
    /\ DependsOn("b", "b")
    /\ ~last.done
    /\ last.rounds > Len(graph_nodes)
    /\ Range(last.path) = {"b"}

\* a and c depend on b, c by the newer edge: the search for a path from a to
\* b has returned the list c, b
C29_ReturnedListDoesNotStartAtFrom ==
    /\ PathSearched
    /\ last.done
    /\ last.arg = [from |-> "a", to |-> "b"]
    /\ last.ret = [some |-> TRUE, path |-> <<"c", "b">>]
    /\ DependsOn("a", "b")
    /\ ~DependsOn("c", "a")

----------------------------------------------------------------------------
(* C30: the cycle counts of the statistics *)

\* get_statistics has returned
StatisticsTaken == last.op = "get_statistics"

\* C30: in every graph, cycle_count, which counts the cycles over Normal
\* edges, is at most total_cycles_including_dev, which counts the cycles
\* over the edges of all kinds, and has_cycles is true exactly when
\* cycle_count is greater than 0.
C30_ProductionCyclesAtMostAllCycles ==
    StatisticsTaken =>
        /\ last.ret.cycle_count <= last.ret.total_cycles_including_dev
        /\ last.ret.has_cycles <=> last.ret.cycle_count > 0

\* a and b each depend on themselves by a Normal edge and on each other by
\* Dev edges: two cycles are counted over the Normal edges, one over all
\* edges
C30_DevEdgesMergeTwoCycles ==
    /\ StatisticsTaken
    /\ DependsOnBy("a", "a", {"Normal"})
    /\ DependsOnBy("b", "b", {"Normal"})
    /\ DependsOnBy("a", "b", {"Dev"})
    /\ DependsOnBy("b", "a", {"Dev"})
    /\ last.ret.has_cycles
    /\ last.ret.cycle_count = 2
    /\ last.ret.total_cycles_including_dev = 1

====
